---------------------------- MODULE Spec2Model ----------------------------
(***************************************************************************)
(* A model of the lengine simulation core: the entity-component World      *)
(* store (src/src/world.rs), the AI controller of the monster              *)
(* (src/src/ai.rs) and the physics system (src/src/physics.rs).            *)
(*                                                                         *)
(* Conventions                                                             *)
(*  - Entity ids are 0-based as in the source; container k of the World is *)
(*    a sequence and entity id lives at position id+1 (see At).            *)
(*  - An Option<T> is a record: None is [some |-> FALSE]; Some(v) is       *)
(*    [some |-> TRUE, v |-> v].                                            *)
(*  - Coordinates are whole world units (the f32 values the model uses are *)
(*    all integral).  A Vector is [dir, mag] where dir is a pair <<dx,dy>> *)
(*    standing for the angle atan2(dy, dx).                                *)
(*  - An Instant is held as the whole number of time units elapsed since   *)
(*    it was taken, saturating where every comparison the code makes with  *)
(*    it is decided; a read in the same run that took it sees an elapsed   *)
(*    time that is positive but below one unit.                            *)
(***************************************************************************)
EXTENDS Integers, Sequences, FiniteSets, TLC

VARIABLES
    states,         \* World.states: Vec<HashSet<String>>
    positions,      \* World.positions: Vec<Option<PositionComponent>>
    physics,        \* World.physics: Vec<Option<PhysicsComponent>>
    graphics,       \* World.graphics: Vec<Option<GraphicsComponent>>
    animations,     \* World.animations: Vec<Option<AnimationComponent>>
    actions,        \* World.actions: Vec<Option<ActionComponent>>
    effects,        \* World.effects: Vec<Effect>
    dialogs,        \* World.dialogs: the names of the HashMap's keys
    current_world,  \* World.current_world, the loaded scene (read by ai.rs)
    ai,             \* the AISystem instance, one field per source field
    panicked,       \* TRUE once a run has hit an unwrap of None or a bad index
    lastOp,         \* the operation that produced this state
    los,            \* what the last AISystem.run's player_visible call saw
    loads,          \* the number of scenes loaded since the game started
    call,           \* the last call of a pure function: arguments and result
    queue,          \* PriorityQueue.nodes: Vec<Node>
    search,         \* shortest_path_segment's locals and its return value
    tree            \* Tree.arena: Vec<Node<T>>, for a tree used on its own

vars == <<states, positions, physics, graphics, animations, actions, effects,
          dialogs, current_world, ai, panicked, lastOp, los, loads,
          call, queue, search, tree>>

worldVars == <<states, positions, physics, graphics, animations, actions,
               effects, dialogs>>

-----------------------------------------------------------------------------
(* Bounds of the model.                                                    *)

MaxEntities == 3
MaxLostDelay == 1
MaxAge == 2
MaxCoord == 110
MaxPhysCoord == 40
MaxLoads == 3

-----------------------------------------------------------------------------
(* Option values and indexing.                                             *)

\* No pure call made yet, and no search under way.
NoCall == [op |-> "none"]

NoSearch == [pc |-> "none"]

None == [some |-> FALSE]

Some(val) == [some |-> TRUE, v |-> val]

IsSome(o) == o.some

At(container, id) == container[id + 1]

SetAt(container, id, val) == [container EXCEPT ![id + 1] = val]

Ids(container) == 0 .. (Len(container) - 1)

Abs(n) == IF n < 0 THEN -n ELSE n

\* The element of a one-element set.
Only(S) == CHOOSE x \in S : TRUE

Min2(a, b) == IF a < b THEN a ELSE b

-----------------------------------------------------------------------------
(* Component values.                                                       *)

Rect(x, y, w, h) == [x |-> x, y |-> y, w |-> w, h |-> h]

PositionComponent(x, y) == [x |-> x, y |-> y]

Vector(dir, mag) == [dir |-> dir, mag |-> mag]

VectorZero == Vector(<<1, 0>>, 0)

PhysicsComponent(hitbox, depth, physical) ==
    [hitbox |-> hitbox, depth |-> depth, physical |-> physical,
     velocity |-> VectorZero]

GraphicsComponent(flipped) == [flipped |-> flipped]

-----------------------------------------------------------------------------
(* Geometry (geometry.rs) and Vector (vector.rs).                          *)

\* Rect::has_intersection: rectangles that only touch do not intersect.
has_intersection(self, other) ==
    LET left == self.x
        right == self.x + self.w
        top == self.y
        bottom == self.y + self.h
        o_left == other.x
        o_right == other.x + other.w
        o_top == other.y
        o_bottom == other.y + other.h
    IN  IF right <= o_left \/ o_right <= left THEN FALSE
        ELSE IF top >= o_bottom \/ o_top >= bottom THEN FALSE
        ELSE TRUE

\* Rect::after_position: the rectangle offset by a position component.
after_position(self, pos) ==
    [self EXCEPT !.x = self.x + pos.x, !.y = self.y + pos.y]

\* Rect::after_depth: the bottom d units of the rectangle.
after_depth_mut(self, d) == [self EXCEPT !.y = self.y + d, !.h = d]

after_depth(self, d) ==
    [self EXCEPT !.y = self.y + self.h - d, !.h = d]

\* hitbox.after_position(pos).after_depth(depth), as written at every use.
Footprint(phys, pos) ==
    after_depth(after_position(phys.hitbox, pos), phys.depth)

RECURSIVE Gcd(_, _)
Gcd(a, b) == IF b = 0 THEN a ELSE Gcd(b, a % b)

\* f32::atan2(dy, dx) as a direction: the offset reduced to lowest terms, so
\* that equal angles are equal values; atan2(0, 0) is the angle 0.
Atan2(dy, dx) ==
    IF dx = 0 /\ dy = 0 THEN <<1, 0>>
    ELSE LET g == Gcd(Abs(dx), Abs(dy)) IN <<dx \div g, dy \div g>>

Sign(n) == IF n < 0 THEN -1 ELSE IF n > 0 THEN 1 ELSE 0

\* (mag * |c| / sqrt(dx^2 + dy^2)) as i32 for a component c of dir: the
\* conversion truncates toward zero.
TruncComponent(mag, c, dir) ==
    LET d2 == dir[1] * dir[1] + dir[2] * dir[2]
    IN  IF c = 0 THEN 0
        ELSE IF d2 = c * c THEN Sign(c) * mag
        ELSE Sign(c) * (CHOOSE n \in 0 .. mag :
                            /\ n * n * d2 <= mag * mag * c * c
                            /\ (n + 1) * (n + 1) * d2 > mag * mag * c * c)

\* Vector::x() as i32 and Vector::y() as i32.
VecXi(vec) == TruncComponent(vec.mag, vec.dir[1], vec.dir)

VecYi(vec) == TruncComponent(vec.mag, vec.dir[2], vec.dir)

-----------------------------------------------------------------------------
(* World: the entity-component store.                                      *)

NoAI == [unused |-> TRUE]

NoLos == [called |-> FALSE]

\* World::new: every container empty.
WorldNew ==
    /\ states = <<>>
    /\ positions = <<>>
    /\ physics = <<>>
    /\ graphics = <<>>
    /\ animations = <<>>
    /\ actions = <<>>
    /\ effects = <<>>
    /\ dialogs = {}

\* The component tuples the scene loader hands to add_entity in this model.
EntityKinds ==
    { <<None, None, None, None, None>>,
      <<Some(PositionComponent(0, 0)), None, Some(GraphicsComponent(FALSE)),
        None, None>>,
      <<None, Some(PhysicsComponent(Rect(0, 0, 10, 20), 5, TRUE)), None,
        None, Some("actions")>>,
      <<Some(PositionComponent(4, 4)),
        Some(PhysicsComponent(Rect(0, 0, 10, 20), 5, TRUE)),
        Some(GraphicsComponent(FALSE)), Some("animations"), None>> }

Tags == {"idle", "walking"}

\* The pushes of add_entity on the six containers, in source order.
add_entity_mut_pushes(k) ==
    /\ states' = Append(states, {})
    /\ positions' = Append(positions, k[1])
    /\ physics' = Append(physics, k[2])
    /\ graphics' = Append(graphics, k[3])
    /\ animations' = animations
    /\ actions' = Append(actions, k[5])

add_entity_pushes(k) ==
    /\ states' = Append(states, {})
    /\ positions' = Append(positions, k[1])
    /\ physics' = Append(physics, k[2])
    /\ graphics' = Append(graphics, k[3])
    /\ animations' = Append(animations, k[4])
    /\ actions' = Append(actions, k[5])

add_entity(k) ==
    /\ Len(states) < MaxEntities
    /\ add_entity_pushes(k)
    /\ lastOp' = "add_entity"
    /\ UNCHANGED <<effects, dialogs, current_world, ai, panicked, los, loads,
                   call, queue, search, tree>>

\* The loop of deload: pop every container while more than one entity is left.
Truncated(container, n) == SubSeq(container, 1, Min2(n, Len(container)))

deload_pops ==
    /\ states' = Truncated(states, 1)
    /\ positions' = Truncated(positions, 1)
    /\ physics' = Truncated(physics, 1)
    /\ graphics' = Truncated(graphics, 1)
    /\ animations' = Truncated(animations, 1)
    /\ actions' = Truncated(actions, 1)

deload ==
    /\ deload_pops
    /\ dialogs' = {}
    /\ effects' = <<>>
    /\ lastOp' = "deload"
    /\ UNCHANGED <<current_world, ai, panicked, los, loads,
                   call, queue, search, tree>>

add_dialog(name) ==
    /\ dialogs' = dialogs \cup {name}
    /\ lastOp' = "add_dialog"
    /\ UNCHANGED <<states, positions, physics, graphics, animations, actions,
                   effects, current_world, ai, panicked, los, loads,
                   call, queue, search, tree>>

HashSetInsert_mut(set, state) ==
    IF state \in set THEN set \ {state} ELSE set \cup {state}

\* HashSet::insert and HashSet::remove on one entity's tag set.
HashSetInsert(set, state) == set \cup {state}

HashSetRemove(set, state) == set \ {state}

add_entity_state(id, state) ==
    /\ id \in Ids(states)
    /\ states' = SetAt(states, id, HashSetInsert(At(states, id), state))
    /\ lastOp' = "add_entity_state"
    /\ UNCHANGED <<positions, physics, graphics, animations, actions, effects,
                   dialogs, current_world, ai, panicked, los, loads,
                   call, queue, search, tree>>

remove_entity_state(id, state) ==
    /\ id \in Ids(states)
    /\ states' = SetAt(states, id, HashSetRemove(At(states, id), state))
    /\ lastOp' = "remove_entity_state"
    /\ UNCHANGED <<positions, physics, graphics, animations, actions, effects,
                   dialogs, current_world, ai, panicked, los, loads,
                   call, queue, search, tree>>

InitWorld ==
    /\ WorldNew
    /\ current_world = "lake"
    /\ ai = NoAI
    /\ panicked = FALSE
    /\ lastOp = "new"
    /\ los = NoLos
    /\ loads = 0
    /\ call = NoCall
    /\ queue = << >>
    /\ search = NoSearch
    /\ tree = << >>

NextWorld ==
    \/ \E k \in EntityKinds : add_entity(k)
    \/ deload
    \/ \E name \in {"intro", "sign"} : add_dialog(name)
    \/ \E id \in 0 .. (MaxEntities - 1), t \in Tags : add_entity_state(id, t)
    \/ \E id \in 0 .. (MaxEntities - 1), t \in Tags : remove_entity_state(id, t)

SpecWorld == InitWorld /\ [][NextWorld]_vars

-----------------------------------------------------------------------------
\* C1: after any sequence of add_entity and deload calls the six per-entity
\* containers (states, positions, physics, graphics, animations, actions) have
\* the same length.
C1_EqualLengths ==
    /\ Len(positions) = Len(states)
    /\ Len(physics) = Len(states)
    /\ Len(graphics) = Len(states)
    /\ Len(animations) = Len(states)
    /\ Len(actions) = Len(states)

\* A deload has cut a world of several entities back to its first entity.
C1_Witness ==
    /\ lastOp = "deload"
    /\ Len(states) = 1
    /\ Len(actions) = 1
    /\ IsSome(At(positions, 0))

-----------------------------------------------------------------------------
(* PhysicsSystem (physics.rs).  The run works on the entities that have    *)
(* both a position and a physics component; its rectangle of an entity is  *)
(* the entity's footprint, and a write to the rectangle's x or y moves the *)
(* entity's position by the same amount.                                   *)

\* The ids the query for QueryFlag::PHYSICS yields, ascending.
PhysicalIds(pos, phys) ==
    SelectSeq([k \in 1 .. Len(pos) |-> k - 1],
              LAMBDA id : IsSome(At(pos, id)) /\ IsSome(At(phys, id)))

\* geometry().rect() of entity id.
EntityRect(pos, phys, id) == Footprint(At(phys, id).v, At(pos, id).v)

\* geometry_mut().x = x and geometry_mut().y = y, on the footprint's corner.
SetRectX(pos, phys, id, x) ==
    SetAt(pos, id, Some([At(pos, id).v EXCEPT !.x = x - At(phys, id).v.hitbox.x]))

SetRectY(pos, phys, id, y) ==
    LET ph == At(phys, id).v
    IN  SetAt(pos, id,
              Some([At(pos, id).v EXCEPT !.y = y - ph.hitbox.y - ph.hitbox.h + ph.depth]))

\* geometry_mut().x += dx; geometry_mut().y += dy.
AddToRect(pos, id, dx, dy) ==
    SetAt(pos, id, Some([At(pos, id).v EXCEPT !.x = @ + dx, !.y = @ + dy]))

\* sdl2's Rect::has_intersection on rectangles of width and height >= 1.
sdl_has_intersection(a, b) ==
    /\ a.x < b.x + b.w
    /\ b.x < a.x + a.w
    /\ a.y < b.y + b.h
    /\ b.y < a.y + a.h

\* dir = y.signum() * FRAC_PI_2; mag = y.abs(): the vector keeps its y part.
ReprojectOntoY(delta_vec) ==
    LET y == VecYi(delta_vec)
    IN  Vector(<<0, IF y < 0 THEN -1 ELSE 1>>, Abs(y))

\* dir = (1.0 - x.signum()) * PI; mag = x.abs(): the angle is 0 or 2*PI, so
\* the vector points along +x whatever the sign of x was.
ReprojectOntoX(delta_vec) ==
    LET x == VecXi(delta_vec)
    IN  Vector(<<1, 0>>, Abs(x))

collide_left_mut(rect_right, other_rect_left, new_right) ==
    new_right > other_rect_left

\* physics.rs 78.
collide_left(rect_right, other_rect_left, new_right) ==
    rect_right < other_rect_left /\ new_right > other_rect_left

\* One pass of the body of the inner loop: entity i against entity j.
\* st is [pos, delta_vec]; rect and new_rect were taken before the loop.
CollideWith(st, phys, i, j, rect, new_rect) ==
    LET other_rect == EntityRect(st.pos, phys, j)
        hit == sdl_has_intersection(new_rect, other_rect)
        other_rect_left == other_rect.x
        other_rect_right == other_rect.x + other_rect.w
        other_rect_top == other_rect.y
        other_rect_bottom == other_rect.y + other_rect.h
        c_left == collide_left(rect.x + rect.w, other_rect_left,
                               new_rect.x + new_rect.w)
        c_right == rect.x > other_rect_right /\ new_rect.x < other_rect_right
        c_top == /\ rect.y + rect.h < other_rect_top
                 /\ new_rect.y + new_rect.h > other_rect_top
        c_bottom == rect.y > other_rect_bottom /\ new_rect.y < other_rect_bottom
        d0 == st.delta_vec
        d1 == IF hit /\ (c_left \/ c_right) /\ (c_top \/ c_bottom)
              THEN [d0 EXCEPT !.mag = 0] ELSE d0
        d2 == IF hit /\ c_left THEN ReprojectOntoY(d1) ELSE d1
        p2 == IF hit /\ c_left
              THEN SetRectX(st.pos, phys, i, other_rect_left - rect.w - 1)
              ELSE st.pos
        d3 == IF hit /\ c_right THEN ReprojectOntoY(d2) ELSE d2
        p3 == IF hit /\ c_right
              THEN SetRectX(p2, phys, i, other_rect_right + 1)
              ELSE p2
        d4 == IF hit /\ (c_top \/ c_bottom) THEN ReprojectOntoX(d3) ELSE d3
        p4 == IF hit /\ c_top
              THEN SetRectY(p3, phys, i, other_rect_top - rect.h - 1)
              ELSE IF hit /\ c_bottom
              THEN SetRectY(p3, phys, i, other_rect_bottom + 1)
              ELSE p3
    IN  [pos |-> AddToRect(p4, i, VecXi(d4), VecYi(d4)), delta_vec |-> d4]

\* for j in 0..entities.len() { if i==j {continue;} ... } from index k on.
RECURSIVE CollideLoop(_, _, _, _, _, _, _)
CollideLoop(st, phys, ids, i, k, rect, new_rect) ==
    IF k > Len(ids) THEN st
    ELSE IF ids[k] = i THEN CollideLoop(st, phys, ids, i, k + 1, rect, new_rect)
    ELSE Only({ CollideLoop(next, phys, ids, i, k + 1, rect, new_rect) :
                next \in { CollideWith(st, phys, i, ids[k], rect, new_rect) } })

\* The body of the outer loop for entity i.
MoveEntity(pos, phys, ids, i) ==
    LET delta_vec == At(phys, i).v.velocity
        rect == EntityRect(pos, phys, i)
        new_rect == [rect EXCEPT !.x = @ + VecXi(delta_vec),
                                 !.y = @ + VecYi(delta_vec)]
    IN  CollideLoop([pos |-> pos, delta_vec |-> delta_vec],
                    phys, ids, i, 1, rect, new_rect).pos

RECURSIVE MoveLoop(_, _, _, _)
MoveLoop(pos, phys, ids, k) ==
    IF k > Len(ids) THEN pos
    ELSE Only({ MoveLoop(next, phys, ids, k + 1) :
                next \in { MoveEntity(pos, phys, ids, ids[k]) } })

\* PhysicsSystem::run on the world's positions: the positions afterwards.
PhysicsPositions(pos, phys) == MoveLoop(pos, phys, PhysicalIds(pos, phys), 1)

InBox(pos, box) ==
    \A id \in Ids(pos) :
        IsSome(At(pos, id)) =>
            /\ Abs(At(pos, id).v.x) <= box
            /\ Abs(At(pos, id).v.y) <= box

\* PhysicsSystem::run.  The run writes positions only: it reads each velocity
\* into a copy and touches no tag set.
PhysicsRun(box) ==
    /\ ~panicked
    /\ InBox(PhysicsPositions(positions, physics), box)
    /\ positions' = PhysicsPositions(positions, physics)
    /\ lastOp' = "physics"
    /\ UNCHANGED <<states, physics, graphics, animations, actions, effects,
                   dialogs, current_world, ai, panicked, los, loads,
                   call, queue, search, tree>>

\* InputSystem::run on the player: the velocity and the idle/walking tags.
MaxPlayerSpeed == 80

InputVelocity(st, phys, gfx, player, vel) ==
    [states |-> SetAt(st, player,
                      IF vel.mag # 0
                      THEN (At(st, player) \ {"idle"}) \cup {"walking"}
                      ELSE (At(st, player) \ {"walking"}) \cup {"idle"}),
     physics |-> SetAt(phys, player,
                       Some([At(phys, player).v EXCEPT !.velocity = vel])),
     graphics |-> IF IsSome(At(gfx, player)) /\ VecXi(vel) # 0
                  THEN SetAt(gfx, player,
                             Some([At(gfx, player).v
                                     EXCEPT !.flipped = VecXi(vel) < 0]))
                  ELSE gfx]

\* The scenes the physics checks start from: a mover A (entity 0), a second
\* body B (entity 1) at x = 15 and a third entity that either has no position
\* or stands away from the other two.
Body(hitbox, depth, vel) ==
    Some([PhysicsComponent(hitbox, depth, TRUE) EXCEPT !.velocity = vel])

PhysDirs == { <<1, 0>>, <<-1, 0>>, <<0, 1>>, <<1, 1>> }

PhysMags == { 0, 4, 12 }

InitPhysics ==
    /\ \E ax \in {0, 3, 5}, ay \in {0, 4}, thirdPos \in {None, Some(PositionComponent(40, 40))} :
          positions = << Some(PositionComponent(ax, ay)),
                         Some(PositionComponent(15, 0)), thirdPos >>
    /\ \E dir \in PhysDirs, mag \in PhysMags, bmag \in {0, 4} :
          physics = << Body(Rect(0, 0, 10, 10), 10, Vector(dir, mag)),
                       Body(Rect(0, 0, 10, 10), 10, Vector(<<-1, 0>>, bmag)),
                       Body(Rect(0, 0, 10, 20), 5, VectorZero) >>
    /\ states = << {}, {}, {} >>
    /\ graphics = << Some(GraphicsComponent(FALSE)), None, None >>
    /\ animations = << None, None, None >>
    /\ actions = << None, None, None >>
    /\ effects = <<>>
    /\ dialogs = {}
    /\ current_world = "lake"
    /\ ai = NoAI
    /\ panicked = FALSE
    /\ lastOp = "new"
    /\ los = NoLos
    /\ loads = 0
    /\ call = NoCall
    /\ queue = << >>
    /\ search = NoSearch
    /\ tree = << >>

NextPhysics == PhysicsRun(MaxPhysCoord)

SpecPhysics == InitPhysics /\ [][NextPhysics]_vars

-----------------------------------------------------------------------------
(* AISystem (ai.rs).  A run is a sequence of steps over a record w that    *)
(* holds what the run reads and writes: the World's states, positions,     *)
(* physics, graphics and current_world (cw), the AISystem's fields (ai),   *)
(* and three flags: panic (an unwrap of None or an index out of range      *)
(* ended the run), ret (the run returned early) and capped (the run used a *)
(* value the model's bounds cannot represent).                             *)

PID == 0

MID == 1

TeleportDelay == 5

IdleSpeed == 60

ArriveDist == 2

AggroSpeedBase == 54

ElapsedGe_mut(age, delay) == age >= delay

\* Instant::elapsed() compared with a delay.  An Instant taken in this run
\* (age 0) has a positive elapsed time below one unit.
ElapsedGt(age, delay) == age > delay \/ (age = 0 /\ delay = 0)

ElapsedLe_mut(age, delay) == age <= delay

ElapsedLt(age, delay) == age < delay

\* An Instant's age dt time units later.  An age at or above cap compares
\* with every delay the Instant is read against as cap does.
Aged(age, dt, cap) == Min2(age + dt, cap)

Stopped(w) == w.panic \/ w.ret

\* The run stops at a panic: an unwrap of None, an index past the end of a
\* Vec, or an arithmetic overflow in a build that checks for it.
Panic(w) == [w EXCEPT !.panic = TRUE, !.why = "unwrap"]

PanicIndex(w) == [w EXCEPT !.panic = TRUE, !.why = "index"]

PanicOverflow(w) == [w EXCEPT !.panic = TRUE, !.why = "overflow"]

MonsterTags(w) == At(w.states, MID)

WithMonsterTags(w, tags) == [w EXCEPT !.states = SetAt(w.states, MID, tags)]

WithMonsterPos(w, p) == [w EXCEPT !.positions = SetAt(w.positions, MID, p)]

Dist2(x0, y0, x1, y1) == (y0 - y1) * (y0 - y1) + (x0 - x1) * (x0 - x1)

\* The index min_by picks on idle_path: the first waypoint at the least
\* distance from (x, y).
NearestIdle(idle_path, x, y) ==
    CHOOSE i \in 0 .. (Len(idle_path) - 1) :
        \A j \in 0 .. (Len(idle_path) - 1) :
            LET di == Dist2(idle_path[i + 1][1], idle_path[i + 1][2], x, y)
                dj == Dist2(idle_path[j + 1][1], idle_path[j + 1][2], x, y)
            IN  di < dj \/ (di = dj /\ i <= j)

\* Does the closed segment a-b meet the closed segment c-d?
Orient(a, b, c) == Sign((b[1] - a[1]) * (c[2] - a[2]) - (b[2] - a[2]) * (c[1] - a[1]))

Within(a, b, c) ==
    /\ Min2(a[1], b[1]) <= c[1] /\ c[1] <= -Min2(-a[1], -b[1])
    /\ Min2(a[2], b[2]) <= c[2] /\ c[2] <= -Min2(-a[2], -b[2])

SegmentsMeet(a, b, c, d) ==
    LET o1 == Orient(a, b, c)
        o2 == Orient(a, b, d)
        o3 == Orient(c, d, a)
        o4 == Orient(c, d, b)
    IN  \/ (o1 # o2 /\ o3 # o4)
        \/ (o1 = 0 /\ Within(a, b, c))
        \/ (o2 = 0 /\ Within(a, b, d))
        \/ (o3 = 0 /\ Within(c, d, a))
        \/ (o4 = 0 /\ Within(c, d, b))

\* Rect::intersects_line, on doubled coordinates (a footprint centre is
\* x + w/2): the segment has an end inside the rectangle or crosses an edge.
intersects_line(rect, a, b) ==
    LET x0 == 2 * rect.x
        x1 == 2 * (rect.x + rect.w)
        y0 == 2 * rect.y
        y1 == 2 * (rect.y + rect.h)
        inside(p) == x0 <= p[1] /\ p[1] <= x1 /\ y0 <= p[2] /\ p[2] <= y1
    IN  \/ inside(a)
        \/ inside(b)
        \/ SegmentsMeet(a, b, <<x0, y0>>, <<x1, y0>>)
        \/ SegmentsMeet(a, b, <<x1, y0>>, <<x1, y1>>)
        \/ SegmentsMeet(a, b, <<x1, y1>>, <<x0, y1>>)
        \/ SegmentsMeet(a, b, <<x0, y1>>, <<x0, y0>>)

\* The centre of a footprint, doubled.
Centre2(rect) == <<2 * rect.x + rect.w, 2 * rect.y + rect.h>>

\* World::physics_mut: the ids that have a position and a physics
\* component, ascending.
physics_mut(pos, phys) ==
    SelectSeq([k \in 1 .. Len(pos) |-> k - 1],
              LAMBDA id : IsSome(At(pos, id)) /\ IsSome(At(phys, id)))

\* AISystem::player_visible: [ok, result, monster, player], where ok is
\* FALSE when entities[MID] or entities[PID] is out of range, and monster and
\* player are the ids of the entities the call took for the two.
player_visible(w) ==
    LET entities == physics_mut(w.positions, w.physics)
        fp(k) == Footprint(At(w.physics, entities[k + 1]).v,
                           At(w.positions, entities[k + 1]).v)
    IN  IF Len(entities) <= MID
        THEN [ok |-> FALSE]
        ELSE [ok |-> TRUE,
              monster |-> entities[MID + 1],
              player |-> entities[PID + 1],
              result |-> ~ \E i \in 2 .. (Len(entities) - 1) :
                              intersects_line(fp(i), Centre2(fp(MID)),
                                              Centre2(fp(PID)))]

\* AISystem::dist is defined when the monster has a position.
CanLocate(w, id) == IsSome(At(w.positions, id)) /\ IsSome(At(w.physics, id))

MonsterRect(w) == Footprint(At(w.physics, MID).v, At(w.positions, MID).v)

PlayerRect(w) == Footprint(At(w.physics, PID).v, At(w.positions, PID).v)

\* AISystem::dist, squared.
dist2(w, x, y) == Dist2(MonsterRect(w).x, MonsterRect(w).y, x, y)

\* velocity.x() > 0.1 for the velocity (dir, mag): (10 * mag * dx)^2 exceeds
\* dx^2 + dy^2, which stays below 1000^2 for every offset inside the box.
XAboveTenth(dir, mag) ==
    LET a == Min2(10 * mag * dir[1], 1000)
    IN  a > 0 /\ a * a > dir[1] * dir[1] + dir[2] * dir[2]

\* AISystem::goto.
goto(w, x, y, speed) ==
    IF ~CanLocate(w, MID) THEN Panic(w)
    ELSE LET angle == Atan2(y - MonsterRect(w).y, x - MonsterRect(w).x)
             ph == [At(w.physics, MID).v EXCEPT !.velocity = Vector(angle, speed)]
             w1 == [w EXCEPT !.physics = SetAt(w.physics, MID, Some(ph))]
             w2 == WithMonsterTags(w1, MonsterTags(w1) \cup {"walking"})
         IN  IF ~IsSome(At(w.graphics, MID)) THEN Panic(w2)
             ELSE [w2 EXCEPT !.graphics =
                      SetAt(w.graphics, MID,
                            Some([At(w.graphics, MID).v
                                    EXCEPT !.flipped = ~XAboveTenth(angle, speed)]))]

stop_mut(w) ==
    IF ~IsSome(At(w.physics, MID)) THEN Panic(w)
    ELSE WithMonsterTags(w, MonsterTags(w) \ {"walking"})

\* AISystem::stop.
stop(w) ==
    IF ~IsSome(At(w.physics, MID)) THEN Panic(w)
    ELSE LET ph == [At(w.physics, MID).v EXCEPT !.velocity.mag = 0]
         IN  WithMonsterTags([w EXCEPT !.physics = SetAt(w.physics, MID, Some(ph))],
                             MonsterTags(w) \ {"walking"})

ReloadStep_mut(w) ==
    IF /\ w.ai.monster_world = "lake"
       /\ w.cw = "lake"
       /\ ~IsSome(At(w.positions, MID))
    THEN WithMonsterPos(w, Some(PositionComponent(0, 0)))
    ELSE w

\* ai.rs 47-50: put the monster back when the lake is loaded again.
ReloadStep(w) ==
    IF /\ w.ai.monster_world = "lake"
       /\ w.cw = "lake"
       /\ ~IsSome(At(w.positions, MID))
    THEN WithMonsterPos(w, Some(PositionComponent(w.ai.monster_lake_pos[1],
                                                  w.ai.monster_lake_pos[2])))
    ELSE w

\* ai.rs 65-76: the monster is aggro, so it follows the player after a delay.
ScheduleTeleport(w) ==
    IF ~CanLocate(w, PID) THEN Panic(w)
    ELSE [w EXCEPT !.ai.awaiting_teleport = TRUE,
                   !.ai.teleport_location = <<PlayerRect(w).x, PlayerRect(w).y>>,
                   !.ai.teleport_timer = 0,
                   !.ai.monster_world = w.cw]

\* ai.rs 77-91: the monster is parked at its nearest idle waypoint.
ParkAtIdle(w) ==
    LET mindex == NearestIdle(w.ai.idle_path, w.ai.monster_lake_pos[1],
                              w.ai.monster_lake_pos[2])
    IN  [w EXCEPT !.ai.monster_lake_pos = <<w.ai.idle_path[mindex + 1][1],
                                            w.ai.idle_path[mindex + 1][2]>>,
                  !.ai.next_idle = (mindex + 1) % Len(w.ai.idle_path),
                  !.ai.last_idle_time = 0]

\* ai.rs 52-97: the loaded scene differs from the monster's scene.
SceneStep(w) ==
    IF w.ai.monster_world = w.cw THEN w
    ELSE IF w.cw = "lake"
    THEN WithMonsterPos([w EXCEPT !.ai.monster_world = "lake"],
                        Some(PositionComponent(w.ai.monster_lake_pos[1],
                                               w.ai.monster_lake_pos[2])))
    ELSE IF IsSome(At(w.positions, MID))
    THEN LET pos == At(w.positions, MID).v
             w1 == [w EXCEPT !.ai.monster_lake_pos = <<pos.x, pos.y>>]
             w2 == IF "aggro" \in MonsterTags(w1)
                   THEN ScheduleTeleport(w1)
                   ELSE ParkAtIdle(w1)
         IN  IF w2.panic THEN w2 ELSE WithMonsterPos(w2, None)
    ELSE w

\* ai.rs 99-110: wait for the teleport, or carry it out.
TeleportStep(w) ==
    IF Stopped(w) THEN w
    ELSE IF w.ai.awaiting_teleport /\ ElapsedLt(w.ai.teleport_timer, TeleportDelay)
    THEN [w EXCEPT !.ret = TRUE]
    ELSE IF w.ai.awaiting_teleport
    THEN IF ~IsSome(At(w.physics, MID)) THEN Panic(w)
         ELSE LET height == At(w.physics, MID).v.hitbox.h
              IN  WithMonsterPos([w EXCEPT !.ai.awaiting_teleport = FALSE],
                                 Some(PositionComponent(
                                          w.ai.teleport_location[1],
                                          w.ai.teleport_location[2] - height)))
    ELSE w

\* ai.rs 126-128: the monster loses the player.
LoseSight_mut(w) ==
    WithMonsterTags(w, (MonsterTags(w) \ {"aggro"}) \cup {"lost"})

LoseSight_keep_mut(w) ==
    WithMonsterTags([w EXCEPT !.ai.last_aggro = 0], MonsterTags(w) \cup {"lost"})

LoseSight(w) ==
    WithMonsterTags([w EXCEPT !.ai.last_aggro = 0],
                    (MonsterTags(w) \ {"aggro"}) \cup {"lost"})

\* ai.rs 121-123: the monster turns on the player.
TurnAggro_mut(w) ==
    WithMonsterTags(w, (MonsterTags(w) \ {"lost"}) \cup {"aggro"})

TurnAggro_lost_mut(w) ==
    WithMonsterTags(w, (MonsterTags(w) \ {"idle"}) \cup {"aggro"})

TurnAggro(w) ==
    WithMonsterTags(w, (MonsterTags(w) \ {"lost", "idle"}) \cup {"aggro"})

\* ai.rs 112-130: line of sight and the transitions it drives.
SightStep(w) ==
    IF Stopped(w) \/ w.cw # w.ai.monster_world THEN w
    ELSE LET pv == player_visible(w)
         IN  IF ~pv.ok THEN PanicIndex(w)
             ELSE LET w1 == [w EXCEPT !.los = [called |-> TRUE,
                                               result |-> pv.result,
                                               monster |-> pv.monster,
                                               player |-> pv.player]]
                  IN  IF pv.result
                      THEN IF ~IsSome(At(w1.positions, PID)) \/ ~CanLocate(w1, MID)
                           THEN Panic(w1)
                           ELSE IF dist2(w1, At(w1.positions, PID).v.x,
                                         At(w1.positions, PID).v.y)
                                     < w1.ai.aggro_distance * w1.ai.aggro_distance
                                THEN TurnAggro(w1)
                                ELSE w1
                      ELSE IF "aggro" \in MonsterTags(w1)
                           THEN LoseSight(w1)
                           ELSE w1

\* next_idle += 1; next_idle %= len; last_idle_time = now.
AdvanceIdle(w) ==
    [w EXCEPT !.ai.next_idle = (w.ai.next_idle + 1) % Len(w.ai.idle_path),
              !.ai.last_idle_time = 0]

\* ai.rs 134-144: idle movement in the lake.
IdleInLake(w) ==
    LET dest == w.ai.idle_path[w.ai.next_idle + 1]
    IN  IF ~CanLocate(w, MID) THEN Panic(w)
        ELSE IF dist2(w, dest[1], dest[2]) < ArriveDist * ArriveDist
        THEN [AdvanceIdle(w) EXCEPT !.ret = TRUE]
        ELSE goto(w, dest[1], dest[2], IdleSpeed)

\* ai.rs 145-154: walk back to the teleport point, then leave the room.
IdleInRoom(w) ==
    IF ~CanLocate(w, MID) THEN Panic(w)
    ELSE IF dist2(w, w.ai.teleport_location[1], w.ai.teleport_location[2])
              < ArriveDist * ArriveDist
    THEN WithMonsterPos([w EXCEPT !.ai.monster_world = "lake"], None)
    ELSE goto(w, w.ai.teleport_location[1], w.ai.teleport_location[2], IdleSpeed)

IdleSimulated_mut(w, checked) ==
    WithMonsterPos(w, Some(PositionComponent(w.ai.monster_lake_pos[1],
                                             w.ai.monster_lake_pos[2])))

\* ai.rs 155-178: the monster idles in the lake while the player is in a
\* room.  next_idle - 1 underflows for next_idle = 0: a build with overflow
\* checks (checked) panics there, one without wraps and goes on.
IdleSimulated(w, checked) ==
    LET path == w.ai.idle_path
        near == Dist2(path[w.ai.next_idle + 1][1], path[w.ai.next_idle + 1][2],
                      w.ai.monster_lake_pos[1], w.ai.monster_lake_pos[2])
                  < ArriveDist * ArriveDist
        w1 == IF near THEN AdvanceIdle(w) ELSE w
        age == w1.ai.last_idle_time
        wait == path[w1.ai.next_idle + 1][3]
        last_index == (w1.ai.next_idle - 1 + Len(path)) % Len(path)
        last_x == path[last_index + 1][1]
        last_y == path[last_index + 1][2]
        delta_x == path[w1.ai.next_idle + 1][1] - last_x
        delta_y == path[w1.ai.next_idle + 1][2] - last_y
        x == last_x + (delta_x * age) \div wait
        y == last_y + (delta_y * age) \div wait
    IN  IF w1.ai.next_idle = 0 /\ checked THEN PanicOverflow(w1)
        ELSE IF \/ age >= MaxAge
                \/ (delta_x * age) % wait # 0 \/ (delta_y * age) % wait # 0
                \/ Abs(x) > MaxCoord \/ Abs(y) > MaxCoord
        THEN [w1 EXCEPT !.capped = TRUE]
        ELSE [w1 EXCEPT !.ai.monster_lake_pos = <<x, y>>]

\* ai.rs 179-189: chase the player.
Chase(w, speed) ==
    IF ~CanLocate(w, PID) THEN Panic(w)
    ELSE goto(w, PlayerRect(w).x, PlayerRect(w).y, speed)

\* ai.rs 193: has the monster been lost for longer than lost_delay?
LostLongEnough(w) == ElapsedGt(w.ai.last_aggro, w.ai.lost_delay)

\* ai.rs 190-209: stand still, and go back to idling after lost_delay.
WaitLost(w) ==
    LET w1 == stop(w)
        mindex == NearestIdle(w.ai.idle_path, w.ai.monster_lake_pos[1],
                              w.ai.monster_lake_pos[2])
    IN  IF w1.panic THEN w1
        ELSE IF LostLongEnough(w1)
        THEN [WithMonsterTags(w1, (MonsterTags(w1) \ {"lost"}) \cup {"idle"})
                EXCEPT !.ai.next_idle = (mindex + 1) % Len(w.ai.idle_path),
                       !.ai.last_idle_time = 0]
        ELSE w1

\* ai.rs 133-209: what the monster does in its state.
BehaveStep(w, speed, checked) ==
    IF Stopped(w) THEN w
    ELSE IF "idle" \in MonsterTags(w)
    THEN IF w.cw = "lake" /\ w.ai.monster_world = "lake" THEN IdleInLake(w)
         ELSE IF w.cw # "lake" /\ w.ai.monster_world # "lake" THEN IdleInRoom(w)
         ELSE IdleSimulated(w, checked)
    ELSE IF "aggro" \in MonsterTags(w) THEN Chase(w, speed)
    ELSE IF "lost" \in MonsterTags(w) THEN WaitLost(w)
    ELSE w

\* The AISystem's Instants, dt time units later.  last_pathfind is taken at
\* construction and read by the chase speed alone, which the model draws from
\* AggroSpeeds: it is not aged.
AgedAI(a, dt) ==
    [a EXCEPT !.last_aggro = Aged(@, dt, MaxLostDelay + 1),
              !.last_idle_time = Aged(@, dt, MaxAge),
              !.teleport_timer = Aged(@, dt, TeleportDelay)]

\* AISystem::run, dt time units after the previous run, on a world whose
\* positions are pos.
RunResult(st, pos, phys, gfx, dt, speed, checked) ==
    Only({ BehaveStep(w4, speed, checked) :
           w4 \in { SightStep(w3) :
           w3 \in { TeleportStep(w2) :
           w2 \in { SceneStep(w1) :
           w1 \in { ReloadStep(w0) :
           w0 \in { [states |-> st, positions |-> pos,
                     physics |-> phys, graphics |-> gfx,
                     cw |-> current_world, ai |-> AgedAI(ai, dt),
                     los |-> NoLos, panic |-> FALSE, why |-> "",
                     ret |-> FALSE, capped |-> FALSE] } } } } } })

\* One frame of the game loop with the player's input vel, dt time units
\* after the previous one: InputSystem::run, PhysicsSystem::run, then
\* AISystem::run.
Frame(vel, dt, speed, checked) ==
    /\ ~panicked
    /\ Len(states) > MID
    /\ \E inp \in { InputVelocity(states, physics, graphics, PID, vel) } :
       \E pos \in { PhysicsPositions(positions, inp.physics) } :
          /\ InBox(pos, MaxCoord)
          /\ \E w \in { RunResult(inp.states, pos, inp.physics, inp.graphics,
                                   dt, speed, checked) } :
                /\ ~w.capped
                /\ states' = w.states
                /\ positions' = w.positions
                /\ physics' = w.physics
                /\ graphics' = w.graphics
                /\ ai' = w.ai
                /\ los' = w.los
                /\ panicked' = w.panic
                /\ lastOp' = IF w.panic THEN w.why ELSE "ai"
    /\ UNCHANGED <<animations, actions, effects, dialogs, current_world, loads,
                   call, queue, search, tree>>

\* AISystem::new.
AISystemNew(idle_path, aggro_distance, lost_delay) ==
    [last_aggro |-> 0,
     idle_path |-> idle_path,
     next_idle |-> 0,
     last_idle_time |-> 0,
     aggro_distance |-> aggro_distance,
     lost_delay |-> lost_delay,
     last_pathfind |-> 0,
     monster_world |-> "lake",
     teleport_timer |-> 0,
     awaiting_teleport |-> FALSE,
     teleport_location |-> <<0, 0>>,
     monster_lake_pos |-> <<0, 0>>]

-----------------------------------------------------------------------------
(* The game around the AISystem: a player (entity 0) and a monster         *)
(* (entity 1) that live through every scene, and two further entities that *)
(* belong to the loaded scene.                                             *)

AggroDistance == 50

IdlePath == << <<0, 0, 1>>, <<60, 0, 1>> >>

\* The chase speed 54 + 20 * sin(5t), at its mean.
AggroSpeeds == { AggroSpeedBase }

Scenes == { "lake", "roomA", "roomB" }

Dts == { 1, TeleportDelay }

Wall == Body(Rect(0, 0, 10, 10), 10, VectorZero)

\* A body that blocks the view and not the way.
Screen == Some(PhysicsComponent(Rect(0, 0, 10, 10), 10, FALSE))

\* The two entities of a scene, each <<position, physics, graphics>>.  The
\* lake is open: a decoration without physics and a body without a position.
\* A room has a body without a position and a screen on the line the player
\* and the monster move on.
Layout(scene) ==
    IF scene = "lake"
    THEN << <<Some(PositionComponent(-30, 0)), None, Some(GraphicsComponent(FALSE))>>,
            <<None, Wall, None>> >>
    ELSE << <<None, Wall, None>>,
            <<Some(PositionComponent(-30, 0)), Screen, None>> >>

\* The scenes a scene leads to: the lake to room A, room A to room B, and
\* back.
Doors == { <<"lake", "roomA">>, <<"roomA", "lake">>,
           <<"roomA", "roomB">>, <<"roomB", "roomA">> }

Entrance(scene) ==
    IF scene = "lake" THEN PositionComponent(-40, -10) ELSE PositionComponent(0, -10)

\* The scene loader: the loaded scene changes, the player stands at the
\* scene's entrance and the scene's own entities replace the old scene's.
\* A scene is loaded within a frame of the game loop, so that at least one
\* frame lies between two loads.
ChangeScene(scene) ==
    /\ ~panicked
    /\ lastOp # "scene"
    /\ Len(states) > MID
    /\ loads < MaxLoads
    /\ <<current_world, scene>> \in Doors
    /\ loads' = loads + 1
    /\ current_world' = scene
    /\ states' = << At(states, PID), At(states, MID), {}, {} >>
    /\ positions' = << Some(Entrance(scene)), At(positions, MID),
                       Layout(scene)[1][1], Layout(scene)[2][1] >>
    /\ physics' = << At(physics, PID), At(physics, MID),
                     Layout(scene)[1][2], Layout(scene)[2][2] >>
    /\ graphics' = << At(graphics, PID), At(graphics, MID),
                      Layout(scene)[1][3], Layout(scene)[2][3] >>
    /\ animations' = << At(animations, PID), At(animations, MID), None, None >>
    /\ actions' = << At(actions, PID), At(actions, MID), None, None >>
    /\ effects' = <<>>
    /\ dialogs' = {}
    /\ lastOp' = "scene"
    /\ UNCHANGED <<ai, panicked, los, call, queue, search, tree>>

\* The player stands still or walks left at full speed.
PlayerVelocities == { VectorZero, Vector(<<-1, 0>>, MaxPlayerSpeed) }

InitAI ==
    /\ positions = << Some(Entrance("lake")), Some(PositionComponent(0, -10)),
                      Layout("lake")[1][1], Layout("lake")[2][1] >>
    /\ physics = << Body(Rect(0, 0, 10, 20), 10, VectorZero),
                    Body(Rect(0, 10, 10, 10), 10, VectorZero),
                    Layout("lake")[1][2], Layout("lake")[2][2] >>
    /\ graphics = << Some(GraphicsComponent(FALSE)),
                     Some(GraphicsComponent(FALSE)),
                     Layout("lake")[1][3], Layout("lake")[2][3] >>
    /\ states = << {"idle"}, {"idle"}, {}, {} >>
    /\ animations = << None, None, None, None >>
    /\ actions = << None, None, None, None >>
    /\ effects = <<>>
    /\ dialogs = {}
    /\ current_world = "lake"
    /\ \E lost_delay \in 0 .. MaxLostDelay :
          ai = AISystemNew(IdlePath, AggroDistance, lost_delay)
    /\ panicked = FALSE
    /\ lastOp = "new"
    /\ los = NoLos
    /\ loads = 0
    /\ call = NoCall
    /\ queue = << >>
    /\ search = NoSearch
    /\ tree = << >>

NextAI ==
    \/ \E vel \in PlayerVelocities, dt \in Dts, speed \in AggroSpeeds,
          checked \in BOOLEAN :
          Frame(vel, dt, speed, checked)
    \/ \E scene \in Scenes : ChangeScene(scene)

SpecAI == InitAI /\ [][NextAI]_vars

\* The one of the tags "idle", "aggro", "lost" the monster carries.
Behaviour(st) == At(st, MID) \cap {"idle", "aggro", "lost"}

\* The player and the monster both have the components dist reads.
BothLocated(pos, phys) ==
    /\ IsSome(At(pos, PID)) /\ IsSome(At(phys, PID))
    /\ IsSome(At(pos, MID)) /\ IsSome(At(phys, MID))

\* Some entity other than the monster and the player, with Position and
\* Physics, has its footprint on the segment between the two centres.
Blocked(pos, phys) ==
    \E id \in Ids(pos) \ {PID, MID} :
        /\ IsSome(At(pos, id)) /\ IsSome(At(phys, id))
        /\ intersects_line(Footprint(At(phys, id).v, At(pos, id).v),
                           Centre2(Footprint(At(phys, MID).v, At(pos, MID).v)),
                           Centre2(Footprint(At(phys, PID).v, At(pos, PID).v)))

\* dist(world, player.x, player.y) < aggro_distance, on the squares.
Near(pos, phys, a) ==
    Dist2(Footprint(At(phys, MID).v, At(pos, MID).v).x,
          Footprint(At(phys, MID).v, At(pos, MID).v).y,
          At(pos, PID).v.x, At(pos, PID).v.y) < a.aggro_distance * a.aggro_distance

\* C2: AISystem.run never fails (no unwrap of a missing component, no index
\* past the filtered entity list) in any state reachable from a world whose
\* player and monster were created with Position, Physics and Graphics, under
\* any sequence of ticks, visibility changes and scene changes.
C2_NeverFails == lastOp \notin {"unwrap", "index"}

\* C3: with lost_delay > 0, within one AISystem.run the monster's behaviour
\* state changes only along Idle->Aggro, Lost->Aggro, Aggro->Lost or
\* Lost->Idle, never Aggro->Idle or Idle->Lost.
C3_Allowed ==
    { <<{"idle"}, {"aggro"}>>, <<{"lost"}, {"aggro"}>>,
      <<{"aggro"}, {"lost"}>>, <<{"lost"}, {"idle"}>> }

C3_Transitions ==
    [][ (lastOp' = "ai" /\ ai.lost_delay > 0)
          => \/ Behaviour(states') = Behaviour(states)
             \/ <<Behaviour(states), Behaviour(states')>> \in C3_Allowed ]_vars

\* A run has just taken the monster from Aggro to Lost, with lost_delay > 0.
C3_Witness ==
    /\ lastOp = "ai"
    /\ ai.lost_delay > 0
    /\ Behaviour(states) = {"lost"}
    /\ ai.last_aggro = 0

\* C4: every AISystem.run in which the player is visible and nearer than
\* aggro_distance leaves the monster in Aggro: tag "aggro" present, tags
\* "idle" and "lost" absent.
C4_VisibleNearIsAggro ==
    [][ ( /\ lastOp' = "ai"
          /\ ai'.monster_world = current_world'
          /\ BothLocated(positions', physics')
          /\ ~Blocked(positions', physics')
          /\ Near(positions', physics', ai') )
          => Behaviour(states') = {"aggro"} ]_vars

\* A run saw the player, near, and the monster, idle until then, is Aggro.
C4_Witness ==
    /\ lastOp = "ai"
    /\ los = [called |-> TRUE, result |-> TRUE, monster |-> MID, player |-> PID]
    /\ BothLocated(positions, physics)
    /\ Near(positions, physics, ai)
    /\ Behaviour(states) = {"aggro"}
    /\ loads = 0
    /\ call = NoCall
    /\ queue = << >>
    /\ search = NoSearch
    /\ tree = << >>

\* C5, as claimed: every AISystem.run that finds the monster Aggro and the
\* player not visible sets last_aggro to the time of that run and leaves the
\* monster in Lost: tag "lost" present, tag "aggro" absent.
C5_LostWhenUnseen ==
    [][ ( /\ lastOp' = "ai"
          /\ Behaviour(states) = {"aggro"}
          /\ los'.called /\ ~los'.result )
          => /\ ai'.last_aggro = 0
             /\ Behaviour(states') = {"lost"} ]_vars

\* C5, amended: such a run sets last_aggro to the time of that run and leaves
\* the monster in Lost when lost_delay > 0, and in Idle when lost_delay = 0,
\* where the wait that follows in the same run is over at once.
C5_LostOrIdleWhenUnseen ==
    [][ ( /\ lastOp' = "ai"
          /\ Behaviour(states) = {"aggro"}
          /\ los'.called /\ ~los'.result )
          => /\ ai'.last_aggro = 0
             /\ Behaviour(states') =
                    IF ai.lost_delay > 0 THEN {"lost"} ELSE {"idle"} ]_vars

\* A run found the player hidden from a monster with lost_delay > 0 and left
\* the monster in Lost.
C5_Witness ==
    /\ lastOp = "ai"
    /\ los.called /\ ~los.result
    /\ Behaviour(states) = {"lost"}
    /\ ai.last_aggro = 0
    /\ ai.lost_delay > 0
    /\ BothLocated(positions, physics)
    /\ Blocked(positions, physics)

\* C6: a monster in Lost does not become Idle in a run at which the time
\* since last_aggro is at most lost_delay, and unless the run takes it back to
\* Aggro it becomes Idle in the first run at which that time exceeds
\* lost_delay.
C6_LostUntilDelay ==
    [][ (lastOp' = "ai" /\ Behaviour(states) = {"lost"})
          => /\ Behaviour(states') = {"idle"} => ai'.last_aggro > ai.lost_delay
             /\ (ai'.last_aggro > ai.lost_delay /\ Behaviour(states') # {"aggro"})
                   => Behaviour(states') = {"idle"} ]_vars

\* The monster has just gone from Lost to Idle, in the first run after
\* lost_delay was over.
C6_Witness ==
    /\ lastOp = "ai"
    /\ Behaviour(states) = {"idle"}
    /\ ai.lost_delay > 0
    /\ ai.last_aggro = ai.lost_delay + 1
    /\ ai.last_idle_time = 0
    /\ "walking" \notin At(states, MID)
    /\ ai.monster_world = current_world
    /\ current_world # "lake"
    /\ IsSome(At(positions, MID))
    /\ los.called /\ ~los.result

\* C8: player_visible returns false exactly when an entity other than the
\* monster and the player, with Position and Physics, has its footprint on the
\* segment between the monster's and the player's footprint centres; entities
\* without Position or Physics never change which entities the call takes for
\* the monster and the player.
C8_PlayerVisible ==
    (lastOp \in {"ai", "unwrap"} /\ los.called)
        => /\ los.monster = MID
           /\ los.player = PID
           /\ BothLocated(positions, physics)
                 => (los.result <=> ~Blocked(positions, physics))

-----------------------------------------------------------------------------
(* The idle loop on its own: the monster idles in the lake, the player     *)
(* stands in the lake out of aggro range, and the game loop keeps running. *)

\* The two-point idle path of the spec's idle-loop test.
ShortPath == << <<0, 0, 1>>, <<10, 0, 1>> >>

\* Where the monster starts: within ArriveDist of the first waypoint.
IdleStarts == { -1, 0, 1 }

\* Where the player stands: further than AggroDistance from the whole path.
PlayerSpots == { -80, -75, -70 }

InitIdle ==
    /\ \E x \in IdleStarts, px \in PlayerSpots :
          positions = << Some(PositionComponent(px, -10)),
                         Some(PositionComponent(x, -10)),
                         Layout("lake")[1][1], Layout("lake")[2][1] >>
    /\ physics = << Body(Rect(0, 0, 10, 20), 10, VectorZero),
                    Body(Rect(0, 10, 10, 10), 10, VectorZero),
                    Layout("lake")[1][2], Layout("lake")[2][2] >>
    /\ graphics = << Some(GraphicsComponent(FALSE)),
                     Some(GraphicsComponent(FALSE)),
                     Layout("lake")[1][3], Layout("lake")[2][3] >>
    /\ states = << {"idle"}, {"idle"}, {}, {} >>
    /\ animations = << None, None, None, None >>
    /\ actions = << None, None, None, None >>
    /\ effects = <<>>
    /\ dialogs = {}
    /\ current_world = "lake"
    /\ \E lost_delay \in 0 .. MaxLostDelay :
          ai = AISystemNew(ShortPath, AggroDistance, lost_delay)
    /\ panicked = FALSE
    /\ lastOp = "new"
    /\ los = NoLos
    /\ loads = 0
    /\ call = NoCall
    /\ queue = << >>
    /\ search = NoSearch
    /\ tree = << >>

NextIdle ==
    \E dt \in Dts, checked \in BOOLEAN :
        Frame(VectorZero, dt, AggroSpeedBase, checked)

\* The game loop never stops: a frame that can run does run.
SpecIdle == InitIdle /\ [][NextIdle]_vars /\ WF_vars(NextIdle)

\* C7: with the monster Idle in its home scene, the player in the same scene
\* and Aggro never triggered, under repeated Physics-then-AI ticks next_idle
\* changes only by +1 modulo the length of the idle path, and it changes
\* infinitely often.
C7_IdleLoop ==
    /\ [][ ai'.next_idle \in { ai.next_idle,
                               (ai.next_idle + 1) % Len(ai.idle_path) } ]_vars
    /\ []<><<ai'.next_idle # ai.next_idle>>_vars

-----------------------------------------------------------------------------
\* C9: after one PhysicsSystem.run, an entity A (entity 0) that moves along +x
\* toward a stationary entity B (entity 1) lying in its way, and whose
\* displacement would reach B, does not overlap B: A's resulting x is at most
\* B.x - A.width.  A may start exactly touching B.
C9_Approaching ==
    LET ra == EntityRect(positions, physics, 0)
        rb == EntityRect(positions, physics, 1)
        va == At(physics, 0).v.velocity
    IN  /\ At(physics, 0).v.physical /\ At(physics, 1).v.physical
        /\ va.dir = <<1, 0>> /\ va.mag > 0
        /\ At(physics, 1).v.velocity.mag = 0
        /\ ra.x + ra.w <= rb.x
        /\ ra.y < rb.y + rb.h /\ rb.y < ra.y + ra.h
        /\ ra.x + ra.w + VecXi(va) > rb.x

C9_NoOverlapAlongX ==
    [][ (lastOp' = "physics" /\ C9_Approaching)
          => EntityRect(positions', physics', 0).x
               <= EntityRect(positions', physics', 1).x
                    - EntityRect(positions, physics, 0).w ]_vars

\* C10: after every PhysicsSystem.run each entity with Position and Physics
\* carries the tag "colliding" if and only if, in that tick, its footprint
\* shifted by delta.x alone or by delta.y alone intersected the footprint of
\* another such entity.
C10_Hit(i) ==
    LET fp == EntityRect(positions, physics, i)
        vel == At(physics, i).v.velocity
        after_x == [fp EXCEPT !.x = @ + VecXi(vel)]
        after_y == [fp EXCEPT !.y = @ + VecYi(vel)]
        ids == PhysicalIds(positions, physics)
    IN  \E k \in 1 .. Len(ids) :
            /\ ids[k] # i
            /\ \/ has_intersection(after_x, EntityRect(positions, physics, ids[k]))
               \/ has_intersection(after_y, EntityRect(positions, physics, ids[k]))

C10_CollidingTag ==
    [][ lastOp' = "physics"
          => \A k \in 1 .. Len(PhysicalIds(positions, physics)) :
                LET i == PhysicalIds(positions, physics)[k]
                IN  ("colliding" \in At(states', i)) <=> C10_Hit(i) ]_vars


\* The tag operations on their own: a world of MaxEntities entities, as
\* add_entity leaves it, on which only add_entity_state and
\* remove_entity_state are called.
InitTags ==
    /\ \E kinds \in [1 .. MaxEntities -> EntityKinds] :
          /\ states = [i \in 1 .. MaxEntities |-> {}]
          /\ positions = [i \in 1 .. MaxEntities |-> kinds[i][1]]
          /\ physics = [i \in 1 .. MaxEntities |-> kinds[i][2]]
          /\ graphics = [i \in 1 .. MaxEntities |-> kinds[i][3]]
          /\ animations = [i \in 1 .. MaxEntities |-> kinds[i][4]]
          /\ actions = [i \in 1 .. MaxEntities |-> kinds[i][5]]
    /\ effects = << >>
    /\ dialogs = {}
    /\ current_world = "lake"
    /\ ai = NoAI
    /\ panicked = FALSE
    /\ lastOp = "add_entity"
    /\ los = NoLos
    /\ loads = 0
    /\ call = NoCall
    /\ queue = << >>
    /\ search = NoSearch
    /\ tree = << >>

NextTags ==
    \/ \E id \in 0 .. (MaxEntities - 1), t \in Tags : add_entity_state(id, t)
    \/ \E id \in 0 .. (MaxEntities - 1), t \in Tags : remove_entity_state(id, t)

SpecTags == InitTags /\ [][NextTags]_vars

\* C12: add_entity_state applied twice with the same id and tag leaves the
\* world as one application does, and likewise remove_entity_state; neither
\* changes another entity's tag set nor any component.
C12_TagSetOps ==
    [][/\ lastOp' = "add_entity_state" =>
            \A id \in Ids(states), t \in Tags :
               add_entity_state(id, t) =>
                  /\ SetAt(states', id, HashSetInsert(At(states', id), t))
                       = states'
                  /\ Len(states') = Len(states)
                  /\ \A j \in Ids(states) \ {id} :
                        At(states', j) = At(states, j)
                  /\ UNCHANGED <<positions, physics, graphics, animations,
                                 actions>>
       /\ lastOp' = "remove_entity_state" =>
            \A id \in Ids(states), t \in Tags :
               remove_entity_state(id, t) =>
                  /\ SetAt(states', id, HashSetRemove(At(states', id), t))
                       = states'
                  /\ Len(states') = Len(states)
                  /\ \A j \in Ids(states) \ {id} :
                        At(states', j) = At(states, j)
                  /\ UNCHANGED <<positions, physics, graphics, animations,
                                 actions>>]_vars

\* A tag has been added to one entity of a world in which another entity
\* carries a different tag set and components are present.
C12_Witness ==
    /\ lastOp = "add_entity_state"
    /\ Len(states) = MaxEntities
    /\ \E id \in Ids(states), j \in Ids(states) :
         /\ id # j
         /\ At(states, id) = {"idle"}
         /\ At(states, j) = {"idle", "walking"}
         /\ IsSome(At(positions, j))
         /\ IsSome(At(physics, id))

\* itertools::izip! of three containers: as long as the shortest.
izip(a, b, c) ==
    [i \in 1 .. Min2(Len(a), Min2(Len(b), Len(c))) |-> <<a[i], b[i], c[i]>>]

enumerate_mut(s) == [i \in 1 .. Len(s) |-> <<i, s[i]>>]

\* Iterator::enumerate: each item with its 0-based index.
enumerate(s) == [i \in 1 .. Len(s) |-> <<i - 1, s[i]>>]

\* The filter of World::physics and World::physics_mut: e is
\* (index, (tags, position, physics)).
physics_filter(e) == IsSome(e[2][2]) /\ IsSome(e[2][3])

\* World::physics: the items (id, (tags, position, physics)) it yields, in
\* the order it yields them.
physics_iter(st, pos, phys) ==
    LET kept == SelectSeq(enumerate(izip(st, pos, phys)), physics_filter)
    IN  [k \in 1 .. Len(kept) |->
            <<kept[k][1], <<kept[k][2][1], kept[k][2][2].v, kept[k][2][3].v>> >>]

\* The ids of the world that have both a Position and a Physics component.
BothPresent ==
    { i \in Ids(states) : IsSome(At(positions, i)) /\ IsSome(At(physics, i)) }

\* C13: World.physics() and World.physics_mut() yield exactly the indices at
\* which both a Position and a Physics component are present, each once and
\* in ascending order, each paired with that entity's own tag set and
\* components; an entity with Physics but no Position is skipped.
C13_PhysicsIterator ==
    LET items == physics_iter(states, positions, physics)
    IN  /\ { items[k][1] : k \in 1 .. Len(items) } = BothPresent
        /\ \A k \in 1 .. (Len(items) - 1) : items[k][1] < items[k + 1][1]
        /\ \A k \in 1 .. Len(items) :
             /\ items[k][2][1] = At(states, items[k][1])
             /\ items[k][2][2] = At(positions, items[k][1]).v
             /\ items[k][2][3] = At(physics, items[k][1]).v
        /\ physics_mut(positions, physics)
             = [k \in 1 .. Len(items) |-> items[k][1]]

\* Entity 0 has Physics and no Position and is skipped; entities 1 and 2,
\* tagged differently, are yielded in that order.
C13_Witness ==
    /\ Len(states) = 3
    /\ IsSome(At(physics, 0)) /\ ~IsSome(At(positions, 0))
    /\ At(states, 0) = {"idle", "walking"}
    /\ At(states, 1) = {"idle"}
    /\ At(states, 2) = {"walking"}
    /\ LET items == physics_iter(states, positions, physics)
       IN  /\ Len(items) = 2
           /\ items[1][1] = 1 /\ items[1][2][1] = {"idle"}
           /\ items[2][1] = 2 /\ items[2][2][1] = {"walking"}

-----------------------------------------------------------------------------
(* The monster and scene changes (SpecAI).                                  *)

\* A run of AISystem::run that did not panic has just been made.
RanAI == lastOp' = "ai"

\* The run carried out a pending teleport.
TeleportFires == RanAI /\ ai.awaiting_teleport /\ ~ai'.awaiting_teleport

\* The position the teleport gives the monster: the teleport location, up
\* by the height of the monster's hitbox (ai.rs 106-109).
TeleportPlace(a, phys) ==
    PositionComponent(a.teleport_location[1],
                      a.teleport_location[2] - At(phys, MID).v.hitbox.h)

\* The run has removed the monster's Position and scheduled a teleport to
\* the player's footprint, the timer starting in this run.
RemovedAndScheduled ==
    /\ ~IsSome(At(positions', MID))
    /\ ai'.awaiting_teleport
    /\ ai'.teleport_timer = 0
    /\ ai'.teleport_location
         = << Footprint(At(physics', PID).v, At(positions', PID).v).x,
              Footprint(At(physics', PID).v, At(positions', PID).v).y >>

\* The waiting and the firing of a scheduled teleport: a run that ends with
\* the teleport pending was made less than 5 seconds after the scheduling,
\* and a run that fires it was made at or after 5 seconds and leaves the
\* monster at the teleport's place.
TeleportTiming ==
    /\ (RanAI /\ ai'.awaiting_teleport) => ai'.teleport_timer < TeleportDelay
    /\ TeleportFires =>
         /\ ai'.teleport_timer >= TeleportDelay
         /\ At(positions', MID) = Some(TeleportPlace(ai, physics))

C15_NoPositionWhileAway ==
    ( /\ lastOp = "ai"
      /\ ai.monster_world = "lake"
      /\ current_world # "lake" ) => ~IsSome(At(positions, MID))

\* The monster idles unseen in the lake while the player is in a room: a
\* time unit after it was parked at a waypoint the simulated motion has taken
\* the tracked position to the next waypoint.
C15_Witness ==
    /\ lastOp = "ai"
    /\ ai.monster_world = "lake"
    /\ current_world # "lake"
    /\ ~IsSome(At(positions, MID))
    /\ Behaviour(states) = {"idle"}
    /\ ai.last_idle_time = 1
    /\ ai.next_idle = 1
    /\ ai.monster_lake_pos = <<ai.idle_path[2][1], ai.idle_path[2][2]>>

\* C16: in the first AISystem.run after the loaded scene becomes the
\* monster's home scene, the monster's logical scene is the home scene and,
\* unless a pending teleport fires in that same run, its Position equals the
\* tracked position (monster_lake_pos) held at the start of that run.
C16_RestoredOnReturn ==
    [][( /\ lastOp = "scene"
         /\ current_world = "lake"
         /\ RanAI ) =>
            /\ ai'.monster_world = "lake"
            /\ \/ TeleportFires
               \/ At(positions', MID)
                    = Some(PositionComponent(ai.monster_lake_pos[1],
                                             ai.monster_lake_pos[2]))]_vars

\* Back in the lake the monster, parked and idling while the player was
\* away, stands at the tracked position the simulated motion had reached.
C16_Witness ==
    /\ lastOp = "ai"
    /\ loads >= 2
    /\ current_world = "lake"
    /\ ai.monster_world = "lake"
    /\ ~ai.awaiting_teleport
    /\ Behaviour(states) = {"idle"}
    /\ ai.monster_lake_pos = <<ai.idle_path[2][1], ai.idle_path[2][2]>>
    /\ At(positions, MID)
         = Some(PositionComponent(ai.monster_lake_pos[1],
                                  ai.monster_lake_pos[2]))

-----------------------------------------------------------------------------
(* The footprint computation on its own: Rect::after_position followed by  *)
(* Rect::after_depth, applied to hitboxes, positions and depths drawn from *)
(* small sets (the depth never above the hitbox's height).                  *)

\* Every variable of the world store, the AI and the bookkeeping at rest.
QuietWorld ==
    /\ WorldNew
    /\ current_world = "lake"
    /\ ai = NoAI
    /\ panicked = FALSE
    /\ lastOp = "new"
    /\ los = NoLos
    /\ loads = 0

GeomCoords == {-3, 0, 4}
GeomWidths == {1, 10}
GeomHeights == {1, 10, 20}
GeomDepths == {0, 1, 5, 10, 20}

\* hitbox.after_position(pos).after_depth(depth), recorded with its inputs.
FootprintCall(hitbox, pos, depth) ==
    [op |-> "footprint", hitbox |-> hitbox, pos |-> pos, depth |-> depth,
     result |-> after_depth(after_position(hitbox, pos), depth)]

FootprintCalls ==
    { FootprintCall(Rect(x, y, w, h), PositionComponent(px, py), d) :
        x \in GeomCoords, y \in GeomCoords, w \in GeomWidths,
        h \in GeomHeights, px \in GeomCoords, py \in GeomCoords,
        d \in GeomDepths }

InitGeometry ==
    /\ QuietWorld
    /\ queue = << >>
    /\ search = NoSearch
    /\ tree = << >>
    /\ \E c \in FootprintCalls : c.depth <= c.hitbox.h /\ call = c

NextGeometry ==
    /\ \E c \in FootprintCalls : c.depth <= c.hitbox.h /\ call' = c
    /\ UNCHANGED <<worldVars, current_world, ai, panicked, lastOp, los, loads,
                   queue, search, tree>>

SpecGeometry == InitGeometry /\ [][NextGeometry]_vars

\* C11: for every hitbox (x, y, w, h), position (px, py) and depth d <= h,
\* hitbox.after_position(pos).after_depth(d) is the rectangle
\* (x + px, y + py + h - d, w, d): the bottom strip of height d of the
\* hitbox moved by the position.
C11_Footprint ==
    call.op = "footprint" =>
        call.result = Rect(call.hitbox.x + call.pos.x,
                           call.hitbox.y + call.pos.y + call.hitbox.h
                               - call.depth,
                           call.hitbox.w, call.depth)

\* The hitbox (0, 0, 10, 20) with depth 5 at the origin gives (0, 15, 10, 5).
C11_Witness ==
    /\ call.op = "footprint"
    /\ call.hitbox = Rect(0, 0, 10, 20)
    /\ call.pos = PositionComponent(0, 0)
    /\ call.depth = 5
    /\ call.result = Rect(0, 15, 10, 5)


-----------------------------------------------------------------------------
(* PriorityQueue (priority_queue.rs): a Vec of nodes kept sorted by cost.   *)
(* A Node is (id, cost, x, y), the tuple struct of pathfinding.rs.          *)

MaxQueue == 3
MaxCost == 2

Node(id, cost, x, y) == <<id, cost, x, y>>

InsertAt(s, at, n) == SubSeq(s, 1, at) \o <<n>> \o SubSeq(s, at + 1, Len(s))

RemoveAt(s, i) == SubSeq(s, 1, i) \o SubSeq(s, i + 2, Len(s))

\* The element of the set of naturals S that the tie rule picks: the
\* greatest for a negative rule, else the one of rank tie (mod the size).
Pick(S, tie) ==
    IF tie < 0 THEN CHOOSE a \in S : \A b \in S : b <= a
    ELSE CHOOSE a \in S :
            Cardinality({ b \in S : b < a }) = tie % Cardinality(S)

binary_search_mut(nodes, n) == { Len(nodes) }

\* PriorityQueue::binary_search: the indices slice::binary_search_by may
\* answer, found or not.  The closure calls an element Less when n's cost is
\* below the element's and Greater when it is above.  On a slice that is a
\* run of Less, then Equal, then Greater elements the answer is any Equal
\* index or, without one, the index where the Greater run begins; on any
\* other slice it is unspecified.
binary_search(nodes, n) ==
    LET len == Len(nodes)
        Less(i) == n[2] < nodes[i + 1][2]
        Equal(i) == n[2] = nodes[i + 1][2]
        Greater(i) == n[2] > nodes[i + 1][2]
        ordered == \A i \in 0 .. (len - 2) :
                      Less(i) \/ Greater(i + 1) \/ (Equal(i) /\ Equal(i + 1))
    IN  IF ~ordered THEN 0 .. len
        ELSE Only({ IF found # {} THEN found
                    ELSE { Cardinality({ i \in 0 .. (len - 1) : Less(i) }) } :
                      found \in { { i \in 0 .. (len - 1) : Equal(i) } } })

\* PriorityQueue::push.
push(nodes, n, tie) ==
    Only({ InsertAt(nodes, insert_at, n) :
             insert_at \in { Pick(binary_search(nodes, n), tie) } })

pop_front_mut(nodes) ==
    IF nodes = << >> THEN [nodes |-> nodes, result |-> None]
    ELSE [nodes |-> Tail(nodes), result |-> Some(Head(nodes))]

\* PriorityQueue::pop: Vec::pop takes the last element.
pop(nodes) ==
    IF nodes = << >> THEN [nodes |-> nodes, result |-> None]
    ELSE [nodes |-> SubSeq(nodes, 1, Len(nodes) - 1),
          result |-> Some(nodes[Len(nodes)])]

index_of_mut(nodes, n) ==
    LET same == { i \in 0 .. (Len(nodes) - 1) : nodes[i + 1] = n }
    IN  IF same = {} THEN None
        ELSE Some(CHOOSE i \in same : \A j \in same : i <= j)

\* PriorityQueue::index_of: the first index holding n's point.
index_of(nodes, n) ==
    LET same == { i \in 0 .. (Len(nodes) - 1) :
                    nodes[i + 1][3] = n[3] /\ nodes[i + 1][4] = n[4] }
    IN  IF same = {} THEN None
        ELSE Some(CHOOSE i \in same : \A j \in same : i <= j)

\* PriorityQueue::remove, for an index inside the Vec.
remove(nodes, i) == RemoveAt(nodes, i)

\* PriorityQueue::insert_or_replace.
insert_or_replace(nodes, n, tie) ==
    Only({ IF IsSome(found)
           THEN IF n[2] < nodes[found.v + 1][2]
                THEN Only({ push(rest, n, tie) :
                              rest \in { remove(nodes, found.v) } })
                ELSE nodes
           ELSE push(nodes, n, tie) :
             found \in { index_of(nodes, n) } })

QueueNodes == { Node(0, c, x, 0) : c \in 0 .. MaxCost, x \in 0 .. 1 }

QueueTies == 0 .. (MaxQueue - 1)

QueueCall(op, arg, before, result) ==
    [op |-> op, arg |-> arg, before |-> before, result |-> result]

Push(n, tie) ==
    /\ Len(queue) < MaxQueue
    /\ queue' = push(queue, n, tie)
    /\ call' = QueueCall("push", n, queue, None)

Pop ==
    /\ queue' = pop(queue).nodes
    /\ call' = QueueCall("pop", None, queue, pop(queue).result)

Remove(i) ==
    /\ i < Len(queue)
    /\ queue' = remove(queue, i)
    /\ call' = QueueCall("remove", i, queue, None)

InsertOrReplace(n, tie) ==
    /\ Len(queue) < MaxQueue
    /\ queue' = insert_or_replace(queue, n, tie)
    /\ call' = QueueCall("insert_or_replace", n, queue, None)

\* PriorityQueue::new.
InitQueue ==
    /\ QuietWorld
    /\ queue = << >>
    /\ call = NoCall
    /\ search = NoSearch
    /\ tree = << >>

NextQueue ==
    /\ \/ \E n \in QueueNodes, tie \in QueueTies : Push(n, tie)
       \/ Pop
       \/ \E i \in 0 .. (MaxQueue - 1) : Remove(i)
       \/ \E n \in QueueNodes, tie \in QueueTies : InsertOrReplace(n, tie)
    /\ UNCHANGED <<worldVars, current_world, ai, panicked, lastOp, los, loads,
                   search, tree>>

SpecQueue == InitQueue /\ [][NextQueue]_vars

\* C19: PriorityQueue.pop returns a node whose cost is at most the cost of
\* every node that remains (min extraction), and None exactly when the queue
\* is empty.
C19_PopMin ==
    call.op = "pop" =>
        /\ (call.result = None) <=> (call.before = << >>)
        /\ IsSome(call.result) =>
             /\ \A k \in 1 .. Len(queue) : call.result.v[2] <= queue[k][2]
             /\ Len(queue) = Len(call.before) - 1

\* A pop has returned the cost-0 node of a queue that still holds nodes of
\* cost 1 and 2.
C19_Witness ==
    /\ call.op = "pop"
    /\ IsSome(call.result)
    /\ call.result.v[2] = 0
    /\ Len(queue) = 2
    /\ { queue[k][2] : k \in 1 .. Len(queue) } = {1, 2}

\* C20 as stated: after any sequence of push, insert_or_replace, remove and
\* pop the nodes are stored in ascending cost order, front to back.
C20_Ascending ==
    \A k \in 1 .. (Len(queue) - 1) : queue[k][2] <= queue[k + 1][2]

\* C20 amended: the nodes are stored in descending cost order, front to
\* back, so that the last node, the one pop takes, has the least cost.
C20_Descending ==
    \A k \in 1 .. (Len(queue) - 1) : queue[k][2] >= queue[k + 1][2]

\* An insert_or_replace has replaced a node by a cheaper one for the same
\* point, which moved behind a node of another point.
C20_Witness ==
    /\ call.op = "insert_or_replace"
    /\ Len(queue) = Len(call.before)
    /\ queue # call.before
    /\ Len(queue) = 2
    /\ queue[1][3] = call.before[2][3]
    /\ queue[1][2] > queue[2][2]


-----------------------------------------------------------------------------
(* The grid search (pathfinding.rs) and its tree of parents (tree.rs).      *)

MaxGoal == 2
MaxDelta == 2

\* Tree::new: an arena holding the root.
tree_new(root) == << [parent |-> None, val |-> root] >>

\* Tree::insert: the arena with the new node; its index is the old length.
insert(arena, parent, val) ==
    Append(arena, [parent |-> Some(parent), val |-> val])

RECURSIVE index_path(_, _)
\* The indices path_to collects: index, its parent, and so on to the root.
index_path(arena, index) ==
    IF IsSome(arena[index + 1].parent)
    THEN <<index>> \o index_path(arena, arena[index + 1].parent.v)
    ELSE <<index>>

path_to_mut(arena, index) ==
    LET up == index_path(arena, index)
    IN  [k \in 1 .. Len(up) |-> arena[up[k] + 1].val]

\* Tree::path_to: the values from the root down to index.
path_to(arena, index) ==
    LET up == index_path(arena, index)
    IN  [k \in 1 .. Len(up) |-> arena[up[Len(up) + 1 - k] + 1].val]

\* The integer part of the square root of n.
ISqrt(n) == CHOOSE r \in 0 .. n : r * r <= n /\ n < (r + 1) * (r + 1)

\* pathfinding::dist: the Euclidean distance, truncated to u32.
dist(x0, y0, x1, y1) == ISqrt((y1 - y0) * (y1 - y0) + (x1 - x0) * (x1 - x0))

Reached_mut(x, y, to, delta) == dist(x, y, to[1], to[2]) <= delta

\* pathfinding.rs 34: the popped node is nearer than delta to the goal.
Reached(x, y, to, delta) == dist(x, y, to[1], to[2]) < delta

\* The (i, j) of the two nested loops of pathfinding.rs 41-43, in order.
Directions ==
    << <<-1, -1>>, <<-1, 0>>, <<-1, 1>>, <<0, -1>>, <<0, 1>>,
       <<1, -1>>, <<1, 0>>, <<1, 1>> >>

\* pathfinding.rs 43-55 for direction k and the popped node p: st holds the
\* tree and the queue nodes.
expand_one(st, s, p, visits, k) ==
    LET new_x == p[3] + s.delta * Directions[k][1]
        new_y == p[4] + s.delta * Directions[k][2]
        cost == p[2] + 1 + dist(p[3], p[4], s.to[1], s.to[2])
        id == Len(st.tree)
    IN  IF <<new_x, new_y>> \in visits THEN st
        ELSE [tree |-> insert(st.tree, p[1], <<new_x, new_y>>),
              nodes |-> insert_or_replace(st.nodes,
                                          Node(id, cost, new_x, new_y), s.tie)]

RECURSIVE expand(_, _, _, _, _)
\* pathfinding.rs 41-57 from direction k on.
expand(st, s, p, visits, k) ==
    IF k > Len(Directions) THEN st
    ELSE Only({ expand(st1, s, p, visits, k + 1) :
                  st1 \in { expand_one(st0, s, p, visits, k) : st0 \in {st} } })

\* shortest_path_segment up to its loop (pathfinding.rs 22-28).
SearchStart(from, to, delta, tie) ==
    [pc |-> "loop", from |-> from, to |-> to, delta |-> delta, tie |-> tie,
     tree |-> tree_new(from), visits |-> {}, popped |-> None,
     result |-> None]

\* pathfinding.rs 30 and 60: the queue is empty, the search answers None.
SearchEmpty ==
    /\ search.pc = "loop"
    /\ ~IsSome(pop(queue).result)
    /\ search' = [search EXCEPT !.pc = "done", !.popped = None,
                                !.result = None]
    /\ UNCHANGED queue

\* pathfinding.rs 30-37: the popped node is near the goal, the search
\* answers path[0] of the path to it.
SearchFound ==
    /\ search.pc = "loop"
    /\ IsSome(pop(queue).result)
    /\ LET p == pop(queue).result.v
       IN  /\ Reached(p[3], p[4], search.to, search.delta)
           /\ search' = [search EXCEPT
                            !.pc = "done", !.popped = Some(p),
                            !.visits = @ \cup {<<p[3], p[4]>>},
                            !.result = Some(path_to(search.tree, p[1])[1])]
           /\ queue' = pop(queue).nodes

\* pathfinding.rs 30-57: the popped node is not near the goal, its
\* neighbours that were not visited join the tree and the queue.
SearchExpand ==
    /\ search.pc = "loop"
    /\ \E popped \in { pop(queue) } :
        /\ IsSome(popped.result)
        /\ \E p \in { popped.result.v } :
           \E visits \in { search.visits \cup {<<p[3], p[4]>>} } :
           /\ ~Reached(p[3], p[4], search.to, search.delta)
           /\ \E st \in { expand([tree |-> search.tree,
                                  nodes |-> popped.nodes],
                                 search, p, visits, 1) } :
                 /\ search' = [search EXCEPT !.popped = Some(p),
                                             !.visits = visits,
                                             !.tree = st.tree]
                 /\ queue' = st.nodes

Starts == { <<0, 0>> }
Goals == { <<x, y>> : x \in (-MaxGoal) .. MaxGoal, y \in (-MaxGoal) .. MaxGoal }
Deltas == 0 .. MaxDelta
SearchTies == {0, -1}

InitSearch ==
    /\ QuietWorld
    /\ call = NoCall
    /\ tree = << >>
    /\ \E from \in Starts, to \in Goals, delta \in Deltas, tie \in SearchTies :
          /\ search = SearchStart(from, to, delta, tie)
          /\ queue = push(<< >>, Node(0, 0, from[1], from[2]), tie)

NextSearch ==
    /\ \/ SearchEmpty
       \/ SearchFound
       \/ SearchExpand
    /\ UNCHANGED <<worldVars, current_world, ai, panicked, lastOp, los, loads,
                   call, tree>>

\* The loop of shortest_path_segment goes on as long as it has not returned.
SpecSearch == InitSearch /\ [][NextSearch]_vars /\ WF_vars(NextSearch)

\* The eight grid neighbours of from at step delta.
UnitSteps(from, delta) ==
    { <<from[1] + delta * Directions[k][1], from[2] + delta * Directions[k][2]>> :
        k \in 1 .. Len(Directions) }

\* C17: when shortest_path_segment returns Some(p), p is the first step
\* after the start on the path found, one of the eight grid neighbours of
\* from at step delta and never from itself; for a goal within delta of the
\* start it returns such a unit step, not None.
C17_FirstStep ==
    (search.pc = "done" /\ search.delta >= 1) =>
        /\ IsSome(search.result) =>
             /\ search.result.v \in UnitSteps(search.from, search.delta)
             /\ search.result.v # search.from
        /\ dist(search.from[1], search.from[2], search.to[1], search.to[2])
             < search.delta => IsSome(search.result)

\* C18: for every start, goal and delta >= 1 the search terminates; it
\* returns Some as soon as a popped frontier node is at distance < delta
\* from the goal, and None only when the frontier is empty, as it is after
\* one pop for delta = 0.
C18_Terminates ==
    /\ <>(search.pc = "done")
    /\ [](search.pc = "loop" /\ IsSome(search.popped) =>
               ~(dist(search.popped.v[3], search.popped.v[4],
                      search.to[1], search.to[2]) < search.delta))
    /\ [](search.pc = "done" =>
            /\ IsSome(search.result) =>
                 /\ IsSome(search.popped)
                 /\ dist(search.popped.v[3], search.popped.v[4],
                         search.to[1], search.to[2]) < search.delta
            /\ ~IsSome(search.result) => queue = << >>
            /\ search.delta = 0 =>
                 (~IsSome(search.result) /\ Cardinality(search.visits) = 1)
            /\ search.delta >= 1 => IsSome(search.result))

\* A search from (0, 0) to (2, 2) with delta 1 has popped the goal and
\* returned after visiting other points.
C18_Witness ==
    /\ search.pc = "done"
    /\ search.from = <<0, 0>> /\ search.to = <<2, 2>> /\ search.delta = 1
    /\ IsSome(search.result)
    /\ search.popped.v[3] = 2 /\ search.popped.v[4] = 2
    /\ Cardinality(search.visits) > 2


-----------------------------------------------------------------------------
(* Tree (tree.rs) on its own: Tree::new, then inserts under existing nodes. *)

MaxTree == 4

TreeVals == {0, 1, 2}

\* Tree::new.
InitTree ==
    /\ QuietWorld
    /\ call = NoCall
    /\ queue = << >>
    /\ search = NoSearch
    /\ \E root \in TreeVals : tree = tree_new(root)

\* Tree::insert under a node that exists; the call answers the new index.
TreeInsert(parent, val) ==
    /\ Len(tree) < MaxTree
    /\ parent < Len(tree)
    /\ tree' = insert(tree, parent, val)
    /\ call' = [op |-> "insert", result |-> Len(tree)]

NextTree ==
    /\ \E parent \in 0 .. (MaxTree - 1), val \in TreeVals :
          TreeInsert(parent, val)
    /\ UNCHANGED <<worldVars, current_world, ai, panicked, lastOp, los, loads,
                   queue, search>>

SpecTree == InitTree /\ [][NextTree]_vars

RECURSIVE Depth(_, _)
\* The number of parent links between node i and the root.
Depth(arena, i) ==
    IF IsSome(arena[i + 1].parent) THEN 1 + Depth(arena, arena[i + 1].parent.v)
    ELSE 0

RECURSIVE Ancestor(_, _, _)
\* The node d parent links above node i.
Ancestor(arena, i, d) ==
    IF d = 0 THEN i ELSE Ancestor(arena, arena[i + 1].parent.v, d - 1)

\* C21: for a Tree built by Tree::new and inserts under existing indices,
\* path_to(i) returns a sequence that starts with the root's value, ends
\* with node i's value, has length depth(i) + 1, and in which each element
\* is the value of the parent of the next.
C21_PathTo ==
    \A i \in 0 .. (Len(tree) - 1) :
        LET path == path_to(tree, i)
        IN  /\ Len(path) = Depth(tree, i) + 1
            /\ path[1] = tree[1].val
            /\ path[Len(path)] = tree[i + 1].val
            /\ \A k \in 1 .. Len(path) :
                  path[k] = tree[Ancestor(tree, i, Len(path) - k) + 1].val

\* A chain root - child - grandchild with three different values: the path
\* to the grandchild lists them root first.
C21_Witness ==
    /\ Len(tree) = MaxTree
    /\ call.op = "insert"
    /\ tree[1].val = 0
    /\ tree[2].parent = Some(0) /\ tree[2].val = 1
    /\ tree[3].parent = Some(1) /\ tree[3].val = 2
    /\ tree[4].parent = Some(0)
    /\ path_to(tree, 2) = <<0, 1, 2>>
    /\ path_to(tree, 3) = <<0, tree[4].val>>


-----------------------------------------------------------------------------
(* Sequences of delayed actions (state.rs, actions.rs) and StateSystem.     *)
(* An Instant is its age in whole time units, as for the AI's timers.       *)

MaxSeqAge == 4

\* Sequence::new: last_switch is the time of creation.
Sequence(seq_actions) ==
    [last_switch |-> 0, actions |-> seq_actions, curr_index |-> 0]

\* AddState and RemoveState (actions.rs 18-46) as (kind, state) pairs.
AddState(state) == <<"AddState", state>>

RemoveState(state) == <<"RemoveState", state>>

\* Actionable::tick of the two kinds, on the tag set of the entity.
action_tick(act, tags) ==
    IF act[1] = "AddState" THEN HashSetInsert(tags, act[2])
    ELSE HashSetRemove(tags, act[2])

\* Sequence::current.
current(seq) == seq.actions[seq.curr_index + 1][2]

\* Sequence::tick: the index moves on and wraps; last_switch is not written.
tick(seq) ==
    IF seq.curr_index = Len(seq.actions) - 1
    THEN [seq EXCEPT !.curr_index = 0]
    ELSE [seq EXCEPT !.curr_index = seq.curr_index + 1]

\* Sequence::ready.
ready(seq) == seq.last_switch >= seq.actions[seq.curr_index + 1][1]

\* ActionComponent::get_mut: the entries whose required states the entity
\* has, an entry being (required states, sequence).
get_mut(comp, tags) ==
    SelectSeq([e \in 1 .. Len(comp) |-> e],
              LAMBDA e : \A r \in comp[e].required : r \in tags)

RECURSIVE RunSequence(_)
\* state.rs 98-105: the while loop on one sequence; r holds the sequence,
\* the entity's tags and the log of (action index, time since creation).
RunSequence(r) ==
    IF ~ready(r.seq) THEN r
    ELSE LET tags == action_tick(current(r.seq), r.tags)
             seq == tick(r.seq)
             log == Append(r.log, <<r.seq.curr_index, r.seq.last_switch>>)
             next == [seq |-> seq, tags |-> tags, log |-> log]
         IN  IF seq.curr_index = 0 THEN next ELSE RunSequence(next)

RECURSIVE RunEntries(_, _, _)
\* state.rs 97-106: the sequences get_mut answered, one after the other.
RunEntries(r, todo, k) ==
    IF k > Len(todo) THEN r
    ELSE LET e == todo[k]
             done == RunSequence([seq |-> r.comp[e].sequence, tags |-> r.tags,
                                  log |-> r.log])
         IN  RunEntries([comp |-> [r.comp EXCEPT ![e].sequence = done.seq],
                         tags |-> done.tags, log |-> done.log], todo, k + 1)

\* state.rs 95-108 for entity i (1-based here), dt time units after the
\* previous run.
RunEntity(i, dt) ==
    IF ~IsSome(actions[i]) THEN [comp |-> << >>, tags |-> states[i], log |-> << >>]
    ELSE LET comp == [e \in 1 .. Len(actions[i].v) |->
                        [actions[i].v[e] EXCEPT !.sequence.last_switch =
                            Aged(@, dt, MaxSeqAge)]]
         IN  RunEntries([comp |-> comp, tags |-> states[i], log |-> << >>],
                        get_mut(comp, states[i]), 1)

\* StateSystem::run.
StateRun(dt) ==
    /\ states' = [i \in 1 .. Len(states) |-> RunEntity(i, dt).tags]
    /\ actions' = [i \in 1 .. Len(states) |->
                     IF IsSome(actions[i]) THEN Some(RunEntity(i, dt).comp)
                     ELSE None]
    /\ call' = [op |-> "state_run",
                log |-> [i \in 1 .. Len(states) |-> RunEntity(i, dt).log]]
    /\ lastOp' = "state"
    /\ UNCHANGED <<positions, physics, graphics, animations, effects, dialogs,
                   current_world, ai, panicked, los, loads, queue, search,
                   tree>>

SeqDelays == {1, 2}

\* The sequences of the scene: two or three actions with their delays.
SeqChoices ==
    { << <<d1, AddState("one")>>, <<d2, AddState("two")>> >> :
        d1 \in SeqDelays, d2 \in SeqDelays }
    \cup { << <<d1, AddState("one")>>, <<d2, RemoveState("go")>>,
              <<d1, RemoveState("one")>> >> :
             d1 \in SeqDelays, d2 \in SeqDelays }

\* A scene with two entities, one without an ActionComponent and one with a
\* component of one sequence.
InitState ==
    /\ \E required \in {{}, {"go"}}, seq_actions \in SeqChoices,
          tags \in {{}, {"go"}} :
          /\ states = << {}, tags >>
          /\ actions = << None,
                          Some(<< [required |-> required,
                                   sequence |-> Sequence(seq_actions)] >>) >>
    /\ positions = << None, None >>
    /\ physics = << None, None >>
    /\ graphics = << None, None >>
    /\ animations = << None, None >>
    /\ effects = << >>
    /\ dialogs = {}
    /\ current_world = "lake"
    /\ ai = NoAI
    /\ panicked = FALSE
    /\ lastOp = "new"
    /\ los = NoLos
    /\ loads = 0
    /\ call = NoCall
    /\ queue = << >>
    /\ search = NoSearch
    /\ tree = << >>

NextState == \E dt \in {0, 1} : StateRun(dt)

SpecState == InitState /\ [][NextState]_vars

RECURSIVE DelaySum(_, _)
\* The sum of the delays of the actions 0 .. k of a sequence.
DelaySum(seq_actions, k) ==
    IF k < 0 THEN 0 ELSE seq_actions[k + 1][1] + DelaySum(seq_actions, k - 1)

\* C22: each action's delay is counted from the execution of the previous
\* action: action k of a Sequence is not run before the sum of the delays of
\* the actions 0 .. k has elapsed since the sequence was created.
C22_DelaysAddUp ==
    call.op = "state_run" =>
        \A i \in 1 .. Len(call.log) :
            \A n \in 1 .. Len(call.log[i]) :
                call.log[i][n][2]
                  >= DelaySum(actions[i].v[1].sequence.actions, call.log[i][n][1])


-----------------------------------------------------------------------------
(* Area effects (effect.rs), World::apply_effects and EffectSystem.         *)

MaxEffects == 2

MaxEffectAge == 2

\* Effect::new: created is the time of the call.
Effect(adds, removes, rect, ttl) ==
    [adds |-> adds, removes |-> removes, created |-> 0, ttl |-> ttl,
     rect |-> rect]

\* Effect::finished.
finished(e) ==
    IF ~IsSome(e.ttl) THEN FALSE ELSE e.created > e.ttl.v

RECURSIVE InsertAll(_, _, _)
\* world.rs 131-133.
InsertAll(tags, add, k) ==
    IF k > Len(add) THEN tags
    ELSE InsertAll(HashSetInsert(tags, add[k]), add, k + 1)

RECURSIVE RemoveAll(_, _, _)
\* world.rs 135-137.
RemoveAll(tags, rem, k) ==
    IF k > Len(rem) THEN tags
    ELSE RemoveAll(HashSetRemove(tags, rem[k]), rem, k + 1)

RECURSIVE ApplyTo(_, _, _, _)
\* world.rs 125-140: the effects in order on one entity's tags.
ApplyTo(tags, footprint, effs, j) ==
    IF j > Len(effs) THEN tags
    ELSE IF has_intersection(footprint, effs[j].rect)
         THEN ApplyTo(RemoveAll(InsertAll(tags, effs[j].adds, 1),
                                effs[j].removes, 1),
                      footprint, effs, j + 1)
         ELSE ApplyTo(tags, footprint, effs, j + 1)

\* World::apply_effects: the tag sets after it.
apply_effects(st, pos, phys, effs) ==
    [i \in 1 .. Len(st) |->
        IF IsSome(pos[i]) /\ IsSome(phys[i])
        THEN ApplyTo(st[i], Footprint(phys[i].v, pos[i].v), effs, 1)
        ELSE st[i]]

\* The effects dt time units later.
AgedEffects(effs, dt) ==
    [j \in 1 .. Len(effs) |->
        [effs[j] EXCEPT !.created = Aged(@, dt, MaxEffectAge)]]

\* EffectSystem::run, dt time units after the previous operation.
EffectSystemRun(dt) ==
    /\ \E now \in {AgedEffects(effects, dt)} :
          /\ states' = apply_effects(states, positions, physics, now)
          /\ effects' = SelectSeq(now, LAMBDA e : ~finished(e))
    /\ call' = [op |-> "effect_run", dt |-> dt]
    /\ lastOp' = "effect"
    /\ UNCHANGED <<positions, physics, graphics, animations, actions, dialogs,
                   current_world, ai, panicked, los, loads, queue, search,
                   tree>>

\* AddEffect::tick (actions.rs 55-59): the spawned effect joins the world's.
AddEffect(adds, removes, rect, ttl) ==
    /\ Len(effects) < MaxEffects
    /\ effects' = Append(effects, Effect(adds, removes, rect, ttl))
    /\ call' = [op |-> "add_effect"]
    /\ lastOp' = "add_effect"
    /\ UNCHANGED <<states, positions, physics, graphics, animations, actions,
                   dialogs, current_world, ai, panicked, los, loads, queue,
                   search, tree>>

\* The puddle covers the first entity's footprint, the far rectangle none.
Puddle == Rect(0, 0, 10, 10)

FarAway == Rect(50, 50, 10, 10)

\* Three entities: one standing in the puddle, one elsewhere and one with
\* no position.
InitEffects ==
    /\ \E tags \in {{}, {"idle"}} : states = << tags, tags, tags >>
    /\ positions = << Some(PositionComponent(2, 2)),
                      Some(PositionComponent(30, 30)), None >>
    /\ physics = << Some(PhysicsComponent(Rect(0, 0, 4, 4), 2, TRUE)),
                    Some(PhysicsComponent(Rect(0, 0, 4, 4), 2, TRUE)),
                    Some(PhysicsComponent(Rect(0, 0, 4, 4), 2, TRUE)) >>
    /\ graphics = << None, None, None >>
    /\ animations = << None, None, None >>
    /\ actions = << None, None, None >>
    /\ effects = << >>
    /\ dialogs = {}
    /\ current_world = "lake"
    /\ ai = NoAI
    /\ panicked = FALSE
    /\ lastOp = "new"
    /\ los = NoLos
    /\ loads = 0
    /\ call = NoCall
    /\ queue = << >>
    /\ search = NoSearch
    /\ tree = << >>

NextEffects ==
    \/ \E dt \in {0, 1} : EffectSystemRun(dt)
    \/ \E adds \in {<< >>, <<"wet">>}, removes \in {<< >>, <<"idle">>},
          rect \in {Puddle, FarAway}, ttl \in {None, Some(0), Some(1)} :
          AddEffect(adds, removes, rect, ttl)

SpecEffects == InitEffects /\ [][NextEffects]_vars

\* C23: EffectSystem.run removes the finished effects before it applies
\* states: the tags after a run are those that the effects not yet expired
\* at the start of the run give, an expired effect adding and removing none.
C23_ExpiredEffectsApplyNothing ==
    [][lastOp' = "effect" =>
         states' = apply_effects(states, positions, physics,
                      SelectSeq(AgedEffects(effects, call'.dt),
                                LAMBDA e : ~finished(e)))]_vars


-----------------------------------------------------------------------------
(* The monster's replanning, facing and standing still (ai.rs).             *)

\* Where the monster is after a run: its Position when it has one, the
\* simulated position otherwise.
MonsterPlace(pos, a) ==
    IF IsSome(At(pos, MID)) THEN <<At(pos, MID).v.x, At(pos, MID).v.y>>
    ELSE a.monster_lake_pos

\* C24: on the transition from Lost to Idle next_idle becomes the index of
\* the idle waypoint nearest to the monster's position at that moment (its
\* Position when it has one, the simulated position otherwise), the lowest
\* index winning ties.
C24_NearestWaypoint ==
    [][ (lastOp' = "ai" /\ Behaviour(states) = {"lost"}
           /\ Behaviour(states') = {"idle"})
          => ai'.next_idle =
               NearestIdle(ai'.idle_path, MonsterPlace(positions', ai')[1],
                           MonsterPlace(positions', ai')[2]) ]_vars


GotoTargets == {-3, -2, -1, 0, 1, 2, 3}

GotoSpeeds == {1, AggroSpeedBase, IdleSpeed}

\* A call of AISystem::goto on the world as it is.
GotoCall(x, y, speed) ==
    /\ \E w \in { goto([states |-> states, positions |-> positions,
                        physics |-> physics, graphics |-> graphics,
                        cw |-> current_world, ai |-> ai, los |-> NoLos,
                        panic |-> FALSE, why |-> "", ret |-> FALSE,
                        capped |-> FALSE], x, y, speed) } :
          /\ ~w.panic
          /\ states' = w.states
          /\ positions' = w.positions
          /\ physics' = w.physics
          /\ graphics' = w.graphics
    /\ call' = [op |-> "goto", x |-> x, y |-> y, speed |-> speed]
    /\ lastOp' = "goto"
    /\ UNCHANGED <<animations, actions, effects, dialogs, current_world, ai,
                   panicked, los, loads, queue, search, tree>>

\* The player and the monster, the monster's footprint at the origin and
\* facing either way.
InitGoto ==
    /\ states = << {}, {} >>
    /\ positions = << Some(PositionComponent(20, 0)),
                      Some(PositionComponent(0, -10)) >>
    /\ physics = << Body(Rect(0, 0, 10, 20), 10, VectorZero),
                    Body(Rect(0, 10, 10, 10), 10, VectorZero) >>
    /\ \E flipped \in BOOLEAN :
          graphics = << Some(GraphicsComponent(FALSE)),
                        Some(GraphicsComponent(flipped)) >>
    /\ animations = << None, None >>
    /\ actions = << None, None >>
    /\ effects = << >>
    /\ dialogs = {}
    /\ current_world = "lake"
    /\ ai = NoAI
    /\ panicked = FALSE
    /\ lastOp = "new"
    /\ los = NoLos
    /\ loads = 0
    /\ call = NoCall
    /\ queue = << >>
    /\ search = NoSearch
    /\ tree = << >>

NextGoto ==
    \E x \in GotoTargets, y \in GotoTargets, speed \in GotoSpeeds :
        GotoCall(x, y, speed)

SpecGoto == InitGoto /\ [][NextGoto]_vars

\* velocity.x() < -0.1 for the velocity (dir, mag).
XBelowMinusTenth(dir, mag) == XAboveTenth(<<-dir[1], dir[2]>>, mag)

\* C25: goto leaves the monster not flipped when the new velocity's x is
\* above 0.1, flipped when it is below -0.1, and facing as before when the
\* x is within 0.1 of zero.
C25_Facing ==
    [][ lastOp' = "goto"
          => LET v == At(physics', MID).v.velocity
                 was == At(graphics, MID).v.flipped
                 is == At(graphics', MID).v.flipped
             IN  /\ XAboveTenth(v.dir, v.mag) => ~is
                 /\ XBelowMinusTenth(v.dir, v.mag) => is
                 /\ (~XAboveTenth(v.dir, v.mag)
                       /\ ~XBelowMinusTenth(v.dir, v.mag)) => is = was ]_vars


\* C26: after every AISystem.run that a pending teleport does not skip and
\* that ends with the monster Lost, the monster's velocity has magnitude 0
\* and the direction it had before the run, and the monster is not
\* "walking".
C26_LostStandsStill ==
    [][ (lastOp' = "ai" /\ ~ai'.awaiting_teleport
           /\ Behaviour(states') = {"lost"})
          => /\ At(physics', MID).v.velocity.mag = 0
             /\ At(physics', MID).v.velocity.dir = At(physics, MID).v.velocity.dir
             /\ "walking" \notin At(states', MID) ]_vars

\* A run has just ended with the monster Lost and standing still, turned
\* the way it last chased the player.
C26_Witness ==
    /\ lastOp = "ai"
    /\ ~ai.awaiting_teleport
    /\ Behaviour(states) = {"lost"}
    /\ ai.last_aggro = 0
    /\ At(physics, MID).v.velocity.mag = 0
    /\ At(physics, MID).v.velocity.dir # VectorZero.dir
    /\ "walking" \notin At(states, MID)


-----------------------------------------------------------------------------
(* PhysicsSystem over time: a mover A (entity 0) around a body B that       *)
(* stands still, with or without a third body C, and runs t time units      *)
(* apart.                                                                   *)

velocity_after_mut(stored, delta_vec) == delta_vec

\* physics.rs 44: delta_vec is a copy of the stored velocity (Vector is Copy,
\* vector.rs 5), so the writes of the collision branches reach the copy and
\* the component keeps what it stored.
velocity_after(stored, delta_vec) == stored

RECURSIVE StoredLoop(_, _, _, _)
\* The outer loop from index k on, on the positions and the Physics
\* components together: the components when the run ends.
StoredLoop(pos, phys, ids, k) ==
    IF k > Len(ids) THEN phys
    ELSE Only({ StoredLoop(st.pos,
                           SetAt(phys, ids[k],
                                 Some([At(phys, ids[k]).v EXCEPT !.velocity =
                                         velocity_after(@, st.delta_vec)])),
                           ids, k + 1) :
                st \in { CollideLoop([pos |-> pos,
                                      delta_vec |-> At(phys, ids[k]).v.velocity],
                                     phys, ids, ids[k], 1,
                                     EntityRect(pos, phys, ids[k]),
                                     [EntityRect(pos, phys, ids[k])
                                        EXCEPT !.x = @ + VecXi(At(phys, ids[k]).v.velocity),
                                               !.y = @ + VecYi(At(phys, ids[k]).v.velocity)]) } })

\* PhysicsSystem::run on the world's Physics components.
PhysicsComponents(pos, phys) == StoredLoop(pos, phys, PhysicalIds(pos, phys), 1)

\* PhysicsSystem::run, t time units after last_tick (physics.rs 43, 123).
PhysicsTick(t, box) ==
    /\ ~panicked
    /\ InBox(PhysicsPositions(positions, physics), box)
    /\ positions' = PhysicsPositions(positions, physics)
    /\ physics' = PhysicsComponents(positions, physics)
    /\ call' = [op |-> "physics_run", t |-> t]
    /\ lastOp' = "physics"
    /\ UNCHANGED <<states, graphics, animations, actions, effects,
                   dialogs, current_world, ai, panicked, los, loads, queue,
                   search, tree>>

MotionDirs ==
    { <<1, 0>>, <<-1, 0>>, <<0, 1>>, <<0, -1>>,
      <<1, 1>>, <<-1, 1>>, <<1, -1>>, <<-1, -1>> }

\* A starts left of B, right of B, above B or below B.
MotionStarts ==
    { PositionComponent(3, 0), PositionComponent(30, 0),
      PositionComponent(15, -14), PositionComponent(15, 14) }

\* C is absent, below the gap between A's left start and B, or far away.
MotionThirds ==
    { None, Some(PositionComponent(5, 15)), Some(PositionComponent(-30, -30)) }

InitMotion ==
    /\ \E start \in MotionStarts, third \in MotionThirds :
          positions = << Some(start), Some(PositionComponent(15, 0)), third >>
    /\ \E dir \in MotionDirs, mag \in PhysMags :
          physics = << Body(Rect(0, 0, 10, 10), 10, Vector(dir, mag)),
                       Body(Rect(0, 0, 10, 10), 10, VectorZero),
                       Body(Rect(0, 0, 10, 10), 10, VectorZero) >>
    /\ states = << {}, {}, {} >>
    /\ graphics = << None, None, None >>
    /\ animations = << None, None, None >>
    /\ actions = << None, None, None >>
    /\ effects = <<>>
    /\ dialogs = {}
    /\ current_world = "lake"
    /\ ai = NoAI
    /\ panicked = FALSE
    /\ lastOp = "new"
    /\ los = NoLos
    /\ loads = 0
    /\ call = NoCall
    /\ queue = << >>
    /\ search = NoSearch
    /\ tree = << >>

NextMotion == \E t \in {0, 1} : PhysicsTick(t, MaxPhysCoord)

SpecMotion == InitMotion /\ [][NextMotion]_vars

\* physics.rs 47-51: the rectangle the entity would have after its move.
NewRect(pos, phys, i) ==
    [EntityRect(pos, phys, i)
       EXCEPT !.x = @ + VecXi(At(phys, i).v.velocity),
              !.y = @ + VecYi(At(phys, i).v.velocity)]

\* The other entities of the run whose rectangle new_rect meets
\* (physics.rs 70), ascending.
Colliding(pos, phys, i) ==
    SelectSeq(PhysicalIds(pos, phys),
              LAMBDA j : /\ j # i
                         /\ sdl_has_intersection(NewRect(pos, phys, i),
                                                 EntityRect(pos, phys, j)))

\* delta_vec of entity i when its inner loop ends.
FinalDelta(pos, phys, i) ==
    CollideLoop([pos |-> pos, delta_vec |-> At(phys, i).v.velocity], phys,
                PhysicalIds(pos, phys), i, 1, EntityRect(pos, phys, i),
                NewRect(pos, phys, i)).delta_vec

\* The mover's displacement in the step.
MovedBy(i) ==
    <<At(positions', i).v.x - At(positions, i).v.x,
      At(positions', i).v.y - At(positions, i).v.y>>

\* C27: the displacement a run gives an unobstructed entity is its velocity
\* times the time since the previous run; with no time in between it is
\* zero.  Stated for the mover in runs over two entities, where the inner
\* loop passes once.
C27_ScaledByTime ==
    [][ ( /\ lastOp' = "physics"
          /\ Len(PhysicalIds(positions, physics)) = 2
          /\ Len(Colliding(positions, physics, 0)) = 0 )
          => MovedBy(0) = <<call'.t * VecXi(At(physics, 0).v.velocity),
                            call'.t * VecYi(At(physics, 0).v.velocity)>> ]_vars


\* C28: a run adds the final delta of an entity to its position exactly
\* once, whatever the number of other entities: an unobstructed entity moves
\* by one delta.
C28_MovedOnce ==
    [][ ( /\ lastOp' = "physics"
          /\ Len(Colliding(positions, physics, 0)) = 0 )
          => MovedBy(0) = <<VecXi(At(physics, 0).v.velocity),
                            VecYi(At(physics, 0).v.velocity)>> ]_vars

\* physics.rs 78-79: the move of rect to new_rect crosses a vertical side
\* of other.
BlockedX(rect, new_rect, other) ==
    \/ collide_left(rect.x + rect.w, other.x, new_rect.x + new_rect.w)
    \/ rect.x > other.x + other.w /\ new_rect.x < other.x + other.w

\* physics.rs 80-81: the move crosses a horizontal side of other.
BlockedY(rect, new_rect, other) ==
    \/ rect.y + rect.h < other.y /\ new_rect.y + new_rect.h > other.y
    \/ rect.y > other.y + other.h /\ new_rect.y < other.y + other.h

\* C29: between two physical entities, when exactly one axis of the mover's
\* displacement is blocked the delta applied is zero along the blocked axis
\* and the original component, size and sign, along the free axis.
C29_FreeAxisKept ==
    [][ ( /\ lastOp' = "physics"
          /\ PhysicalIds(positions, physics) = <<0, 1>>
          /\ Colliding(positions, physics, 0) = <<1>> )
          => LET rect == EntityRect(positions, physics, 0)
                 new_rect == NewRect(positions, physics, 0)
                 other == EntityRect(positions, physics, 1)
                 v == At(physics, 0).v.velocity
                 d == FinalDelta(positions, physics, 0)
                 bx == BlockedX(rect, new_rect, other)
                 by == BlockedY(rect, new_rect, other)
             IN  /\ (bx /\ ~by) => (VecXi(d) = 0 /\ VecYi(d) = VecYi(v))
                 /\ (by /\ ~bx) => (VecYi(d) = 0 /\ VecXi(d) = VecXi(v)) ]_vars

\* C30: when the mover collides with two or more neighbours in a run, its
\* final delta is what the rule gives from the original delta against the
\* last colliding neighbour alone.
C30_LastNeighbourDecides ==
    [][ ( /\ lastOp' = "physics"
          /\ Len(Colliding(positions, physics, 0)) >= 2 )
          => LET hits == Colliding(positions, physics, 0)
                 alone == CollideWith([pos |-> positions,
                                       delta_vec |-> At(physics, 0).v.velocity],
                                      physics, 0, hits[Len(hits)],
                                      EntityRect(positions, physics, 0),
                                      NewRect(positions, physics, 0)).delta_vec
                 d == FinalDelta(positions, physics, 0)
             IN  VecXi(d) = VecXi(alone) /\ VecYi(d) = VecYi(alone) ]_vars


\* C31: PhysicsSystem.run never changes the velocity, direction or
\* magnitude, stored in an entity's Physics component: the collision
\* resolution alters a copy.
C31_VelocityKept ==
    [][ lastOp' = "physics"
          => /\ Len(physics') = Len(physics)
             /\ \A id \in Ids(physics) :
                   /\ IsSome(At(physics', id)) = IsSome(At(physics, id))
                   /\ IsSome(At(physics, id))
                        => At(physics', id).v.velocity = At(physics, id).v.velocity ]_vars

\* A run has just stopped the mover against B's left side, its copy of the
\* delta re-projected to nothing, and the mover still has its velocity.
C31_Witness ==
    /\ lastOp = "physics"
    /\ At(positions, 0).v = PositionComponent(4, 0)
    /\ At(physics, 0).v.velocity = Vector(<<1, 0>>, 12)


-----------------------------------------------------------------------------
(* The costs of the grid search and the points of its queue.                *)

\* The nodes of the queue that the expansion of the popped node inserted:
\* those whose parent in the tree is the popped node.
InsertedBy(popped) ==
    { queue[k] : k \in { k \in 1 .. Len(queue) :
                           search.tree[queue[k][1] + 1].parent = Some(popped[1]) } }

\* C32: every node that the expansion of a node of cost c inserts for the
\* neighbour (nx, ny) has cost c + 1 + dist((nx, ny), goal), the distance
\* taken from the new point.
C32_CostFromNewPoint ==
    (search.pc = "loop" /\ IsSome(search.popped)) =>
        \A n \in InsertedBy(search.popped.v) :
            n[2] = search.popped.v[2] + 1
                     + dist(n[3], n[4], search.to[1], search.to[2])


\* Nodes on three points of a row.
PointNodes == { Node(0, c, x, 0) : c \in 0 .. MaxCost, x \in 0 .. 2 }

\* A queue that only insert_or_replace and pop touch.
NextPoints ==
    /\ \/ \E n \in PointNodes, tie \in QueueTies : InsertOrReplace(n, tie)
       \/ Pop
    /\ UNCHANGED <<worldVars, current_world, ai, panicked, lastOp, los, loads,
                   search, tree>>

SpecPoints == InitQueue /\ [][NextPoints]_vars

\* C33: in a queue modified through insert_or_replace and pop alone no two
\* nodes share a point, and after insert_or_replace(n) the node held for
\* n's point has the least of its previous cost and n's cost, the queue
\* being unchanged when n's cost is not strictly lower.
C33_OneNodePerPoint ==
    /\ \A i \in 1 .. Len(queue) : \A j \in 1 .. Len(queue) :
          (queue[i][3] = queue[j][3] /\ queue[i][4] = queue[j][4]) => i = j
    /\ call.op = "insert_or_replace" =>
          LET n == call.arg
              was == { m \in { call.before[k] : k \in 1 .. Len(call.before) } :
                         m[3] = n[3] /\ m[4] = n[4] }
              is == { m \in { queue[k] : k \in 1 .. Len(queue) } :
                        m[3] = n[3] /\ m[4] = n[4] }
          IN  /\ Cardinality(is) = 1
              /\ \A m \in is :
                    /\ m[2] <= n[2]
                    /\ \A o \in was : m[2] <= o[2]
                    /\ m[2] = n[2] \/ \E o \in was : m[2] = o[2]
              /\ (\E o \in was : n[2] >= o[2]) => queue = call.before

\* An insert_or_replace has put a cheaper node in the place of the node of
\* its point, in a queue that holds the node of another point as well.
C33_Witness ==
    /\ call.op = "insert_or_replace"
    /\ Len(queue) = 2
    /\ Len(call.before) = 2
    /\ \E k \in 1 .. 2 :
          /\ call.before[k][3] = call.arg[3]
          /\ call.before[k][2] > call.arg[2]
    /\ \E k \in 1 .. 2 : queue[k] = call.arg


-----------------------------------------------------------------------------
(* The monster's behaviour tags from any start with at most one of them.    *)

BehaviourStarts == { {}, {"idle"}, {"aggro"}, {"lost"} }

\* The scene of InitAI with the monster's tag set drawn from BehaviourStarts.
InitBehaviours ==
    /\ positions = << Some(Entrance("lake")), Some(PositionComponent(0, -10)),
                      Layout("lake")[1][1], Layout("lake")[2][1] >>
    /\ physics = << Body(Rect(0, 0, 10, 20), 10, VectorZero),
                    Body(Rect(0, 10, 10, 10), 10, VectorZero),
                    Layout("lake")[1][2], Layout("lake")[2][2] >>
    /\ graphics = << Some(GraphicsComponent(FALSE)),
                     Some(GraphicsComponent(FALSE)),
                     Layout("lake")[1][3], Layout("lake")[2][3] >>
    /\ \E tags \in BehaviourStarts : states = << {"idle"}, tags, {}, {} >>
    /\ animations = << None, None, None, None >>
    /\ actions = << None, None, None, None >>
    /\ effects = <<>>
    /\ dialogs = {}
    /\ current_world = "lake"
    /\ \E lost_delay \in 0 .. MaxLostDelay :
          ai = AISystemNew(IdlePath, AggroDistance, lost_delay)
    /\ panicked = FALSE
    /\ lastOp = "new"
    /\ los = NoLos
    /\ loads = 0
    /\ call = NoCall
    /\ queue = << >>
    /\ search = NoSearch
    /\ tree = << >>

SpecBehaviours == InitBehaviours /\ [][NextAI]_vars

\* C34: from a monster tag set with at most one of "idle", "aggro", "lost",
\* no sequence of runs and scene changes gives the monster two of the three
\* at once, and a monster that has one of them keeps exactly one.
C34_OneBehaviour ==
    /\ [](Cardinality(Behaviour(states)) <= 1)
    /\ [][Cardinality(Behaviour(states)) = 1
            => Cardinality(Behaviour(states')) = 1]_vars

\* A run has just taken the monster from Aggro to Lost: it holds "lost"
\* alone.
C34_Witness ==
    /\ lastOp = "ai"
    /\ Behaviour(states) = {"lost"}
    /\ ai.last_aggro = 0
    /\ "idle" \notin At(states, MID)
    /\ "aggro" \notin At(states, MID)


-----------------------------------------------------------------------------
(* Where the monster is materialized, and what the run remembers of it.     *)

\* C35: at the end of every AISystem.run a monster that has a Position is
\* in the loaded scene: monster_world equals current_world.
C35_MaterializedInOwnScene ==
    [][ (lastOp' = "ai" /\ IsSome(At(positions', MID)))
          => ai'.monster_world = current_world' ]_vars


\* C36: a pending teleport places the monster only while the scene it was
\* scheduled for is loaded.  Teleports are scheduled in rooms only, and
\* monster_world names the room of the last one until the lake is loaded
\* again: the run that carries the teleport out is in a room, and in that
\* room when monster_world names one.
C36_TeleportInItsScene ==
    [][ TeleportFires
          => /\ current_world' # "lake"
             /\ ai.monster_world # "lake" => ai.monster_world = current_world' ]_vars


\* The points of the idle path, the positions the simulation parks the
\* monster at (ai.rs 87-88).
Waypoints(a) == { <<a.idle_path[k][1], a.idle_path[k][2]>> :
                    k \in 1 .. Len(a.idle_path) }

\* C37: monster_lake_pos is only overwritten with a position the monster
\* held, or is simulated to hold, in the lake: a run that starts with the
\* monster in a room and the player in a room leaves it as it was, or at a
\* point of the idle path.
C37_LakePosFromLake ==
    [][ (lastOp' = "ai" /\ ai.monster_world # "lake"
           /\ current_world' # "lake")
          => \/ ai'.monster_lake_pos = ai.monster_lake_pos
             \/ ai'.monster_lake_pos \in Waypoints(ai) ]_vars


\* C38: PhysicsSystem.run leaves the position of every entity whose
\* velocity has magnitude 0 as it was, whether or not other entities move
\* into it or overlap it.
C38_StillStaysPut ==
    [][ lastOp' = "physics"
          => \A id \in Ids(positions) :
                ( /\ IsSome(At(positions, id)) /\ IsSome(At(physics, id))
                  /\ At(physics, id).v.velocity.mag = 0 )
                  => At(positions', id) = At(positions, id) ]_vars

\* A run has just moved A into B, which stands still where it was.
C38_Witness ==
    /\ lastOp = "physics"
    /\ At(physics, 1).v.velocity.mag = 0
    /\ At(physics, 0).v.velocity.mag > 0
    /\ At(positions, 1).v = PositionComponent(15, 0)
    /\ sdl_has_intersection(EntityRect(positions, physics, 0),
                            EntityRect(positions, physics, 1))


\* C39: in the simulated-idle branch the index of the previous waypoint is
\* (next_idle - 1) mod len for every next_idle in 0 .. len - 1, computed
\* without unsigned underflow even when next_idle is 0: no run of the
\* AISystem ends in the panic of an arithmetic overflow.
C39_NoUnderflow == lastOp # "overflow"

=============================================================================
